---- MODULE Spec2Model ----
(***************************************************************************)
(* A model of PacketHandler v2 (src/Pychat/lmchat/core/packethandler.py): *)
(* the packet codec, the layered store (receive / emit / prune / route),   *)
(* the consent engine and the context reconstructor.                       *)
(*                                                                         *)
(* Representation                                                          *)
(*   - a Python dict is a TLA+ function with a string domain, so a missing *)
(*     key is a key outside DOMAIN and dict.update is Update;              *)
(*   - a packet's metadata dict is an object on a heap (metas): from_dict  *)
(*     hands the caller's metadata mapping to __init__, which keeps that   *)
(*     very object and updates it in place, so packets can share it;       *)
(*   - content is the ordered list of the dict's items, each value a       *)
(*     tagged JSON value; json.dumps is modelled by the length of the text *)
(*     it writes, and the sha256 digest of the key-sorted text by that     *)
(*     canonical (key-sorted) item list itself (an injective digest);      *)
(*   - an ISO-8601 string is the instant it denotes plus whether it        *)
(*     carries a UTC offset; the clock (now) counts ticks.                 *)
(***************************************************************************)
EXTENDS Integers, Sequences, FiniteSets, TLC

(* ---------------------------------------------------------------- bounds *)
\* operations per behaviour of Spec
MaxOps == 3
\* the clock runs from 0 to MaxTime
MaxTime == 2
\* receives / emits beyond MAX_BUFFER_SIZE in SpecBuf
BulkExtra == 2

(* ----------------------------------------------------- program constants *)
MAX_BUFFER_SIZE == 200
SESSION_CAPACITY == 10
CONTEXT_CAPACITY == 20
RESERVE_MARGIN == 100
DEFAULT_MAX_PACKET_SIZE == 8000
DEFAULT_COMPRESSION_THRESHOLD == 4000

VARIABLES
    now,              \* the wall clock (time.time_ns / datetime.now)
    metas,            \* heap of metadata dicts: a packet's meta is an index
    incoming_buffer,
    outgoing_buffer,
    identity_layer,   \* <<>> for None, <<p>> for a packet
    session_memory,
    context_layers,
    files,            \* the files of the storage directory, by path
    index,            \* the lines of index.jsonl: the id an entry names,
                      \* or the pieces of a line that is no entry
    received,         \* history: every packet receive_packet has returned
    emitted,          \* history: every packet handed to emit_packet
    nops,             \* number of calls made so far
    last,             \* the last call: its operation, input and outcome
    built,            \* history: every packet create_packet has returned
    asbuilt,          \* history: the content each of them was built with
    emitting,         \* <<>>, or the emit_packet call in progress: its
                      \* packet and the step of _persist_packet it is at
    max_packet_size,  \* the handler's constructor arguments
    compression_threshold,
    receiving,        \* per thread: the receive_packet call it is in and
                      \* the statement that call is at, or Idle
    serialized        \* whether the callers hold one lock around each call

vars == <<now, metas, incoming_buffer, outgoing_buffer, identity_layer,
          session_memory, context_layers, files, index, received, emitted,
          nops, last, built, asbuilt, emitting, max_packet_size,
          compression_threshold, receiving, serialized>>

\* what the calls of the store and of the read-only operations leave alone
extra == <<built, asbuilt, emitting, max_packet_size, compression_threshold,
           receiving, serialized>>

store == <<incoming_buffer, outgoing_buffer, identity_layer, session_memory,
           context_layers>>

\* the threads of the host that call the handler, and a thread that is in
\* no call
Threads == {"T1", "T2"}
Idle == [pc |-> "idle"]

(* ------------------------------------------------------ generic helpers *)
Range(s) == {s[i] : i \in 1..Len(s)}

Min(a, b) == IF a < b THEN a ELSE b

\* s[-n:] of a Python list
LastN(s, n) == IF Len(s) <= n THEN s ELSE SubSeq(s, Len(s) - n + 1, Len(s))

\* dict.get(k, default)
Get(d, k, default) == IF k \in DOMAIN d THEN d[k] ELSE default

\* dict.update(u), as a value
Update(m, u) ==
    [k \in DOMAIN m \cup DOMAIN u |-> IF k \in DOMAIN u THEN u[k] ELSE m[k]]

\* the empty dict {}
EmptyDict == [k \in {} |-> TRUE]

(* ------------------------------------------------------------- enums *)
\* PacketType: member name -> value
PacketTypeValue(member) ==
    CASE member = "IDENTITY" -> "identity"
      [] member = "SESSION" -> "session"
      [] member = "CONTEXT" -> "context"
      [] member = "HANDOVER" -> "handover"
      [] member = "SYNC" -> "sync"
      [] member = "CHECKPOINT" -> "checkpoint"

PacketTypeMembers ==
    {"IDENTITY", "SESSION", "CONTEXT", "HANDOVER", "SYNC", "CHECKPOINT"}

\* PacketType(value): the member, or ValueError
PacketType(value) ==
    IF \E m \in PacketTypeMembers : PacketTypeValue(m) = value
    THEN [ok |-> TRUE,
          member |-> CHOOSE m \in PacketTypeMembers : PacketTypeValue(m) = value]
    ELSE [ok |-> FALSE]

\* PacketPriority: member name -> value
PacketPriorityValue(member) ==
    CASE member = "CRITICAL" -> 1
      [] member = "HIGH" -> 2
      [] member = "MEDIUM" -> 3
      [] member = "LOW" -> 4

PacketPriorityMembers == {"CRITICAL", "HIGH", "MEDIUM", "LOW"}

\* a lookup that takes every value it does not know for MEDIUM
PacketPriorityOrMedium(value) ==
    IF \E m \in PacketPriorityMembers : PacketPriorityValue(m) = value
    THEN [ok |-> TRUE,
          member |-> CHOOSE m \in PacketPriorityMembers :
                         PacketPriorityValue(m) = value]
    ELSE [ok |-> TRUE, member |-> "MEDIUM"]

\* PacketPriority(value): the member, or ValueError
PacketPriority(value) ==
    IF \E m \in PacketPriorityMembers : PacketPriorityValue(m) = value
    THEN [ok |-> TRUE,
          member |-> CHOOSE m \in PacketPriorityMembers :
                         PacketPriorityValue(m) = value]
    ELSE [ok |-> FALSE]

(* --------------------------------------------------------- timestamps *)
\* expires_at values: None, "", a string that is no ISO-8601 timestamp, and
\* ISO-8601 strings with ("...+00:00") and without a UTC offset
None == [kind |-> "none"]
EmptyString == [kind |-> "empty"]
NotIso == [kind |-> "text"]
IsoAware(t) == [kind |-> "iso", tz |-> TRUE, t |-> t]
IsoNaive(t) == [kind |-> "iso", tz |-> FALSE, t |-> t]

\* Python truthiness of an expires_at value
Truthy(e) == e.kind \notin {"none", "empty"}

\* datetime.fromisoformat: the datetime, or ValueError
FromIsoFormat(e) ==
    IF e.kind = "iso" THEN [ok |-> TRUE, tz |-> e.tz, t |-> e.t]
    ELSE [ok |-> FALSE]

\* _now_iso(): datetime.now(timezone.utc).isoformat()
NowIso(clock) == IsoAware(clock)

(* ------------------------------------------------------------ content *)
\* JSON values of a content dict: strings and numbers, which callers write,
\* and the values _compress_packet writes: true, the original packet's id and
\* checksum, the summary and the key points of the original content.  Keys
\* and strings are plain text (nothing json.dumps would escape but the quotes
\* of the summary).
Str(s) == [t |-> "str", s |-> s]
Num(n) == [t |-> "num", n |-> n]
Bool(b) == [t |-> "bool", b |-> b]
IdValue(id) == [t |-> "id", id |-> id]
DigestValue(d) == [t |-> "digest", d |-> d]
SummaryValue(content) == [t |-> "summary", of |-> content]
KeyPointsValue(content) == [t |-> "key_points", of |-> content]

RECURSIVE Digits(_)
\* len(str(n)) of a natural number
Digits(n) == IF n < 10 THEN 1 ELSE 1 + Digits(n \div 10)

\* len(str(v)[:50]) of a caller's value (_extract_key_points)
StrLen50(v) ==
    LET n == CASE v.t = "str" -> Len(v.s) [] v.t = "num" -> Digits(v.n)
    IN  IF n > 50 THEN 50 ELSE n

\* len(json.dumps(v)) of a caller's value
PlainValueLen(v) == CASE v.t = "str" -> Len(v.s) + 2 [] v.t = "num" -> Digits(v.n)

RECURSIVE PlainItemsLen(_)
\* the items of a caller's dict as json.dumps writes them
PlainItemsLen(items) ==
    IF items = <<>> THEN 0
    ELSE (Len(items[1].k) + 2) + 2 + PlainValueLen(items[1].v)
         + (IF Len(items) > 1 THEN 2 ELSE 0) + PlainItemsLen(Tail(items))

\* len(json.dumps(content)) of a caller's content
PlainLen(content) == 2 + PlainItemsLen(content)

RECURSIVE QuotesBefore(_, _, _)
\* the number of quote characters among the first `limit` characters of
\* json.dumps(content), the items starting at offset `at`
QuotesBefore(items, at, limit) ==
    IF items = <<>> THEN 0
    ELSE LET k == items[1].k
             v == items[1].v
             vat == at + Len(k) + 4
             here == {at, at + Len(k) + 1}
                     \cup (IF v.t = "str" THEN {vat, vat + Len(v.s) + 1} ELSE {})
         IN  Cardinality({q \in here : q < limit})
             + QuotesBefore(Tail(items), vat + PlainValueLen(v) + 2, limit)

\* len(json.dumps(_summarize_content(content))): the first 200 characters of
\* the text, "..." when it was longer, its quotes escaped
SummaryLen(content) ==
    LET n == PlainLen(content)
    IN  2 + (IF n > 200 THEN 203 ELSE n) + QuotesBefore(content, 1, 200)

RECURSIVE KeyPointsItemsLen(_, _)
\* the strings "key: value" of the first `left` keys, as json.dumps writes them
KeyPointsItemsLen(items, left) ==
    IF items = <<>> \/ left = 0 THEN 0
    ELSE (Len(items[1].k) + 2 + StrLen50(items[1].v) + 2)
         + (IF Len(items) > 1 /\ left > 1 THEN 2 ELSE 0)
         + KeyPointsItemsLen(Tail(items), left - 1)

\* len(json.dumps(_extract_key_points(content)))
KeyPointsLen(content) == 2 + KeyPointsItemsLen(content, 5)

\* len(json.dumps(v)) of one value; a generated id is "cp_", the 19 digits of
\* time_ns, "_" and 8 hex digits, a checksum 16 hex digits
JsonValueLen(v) ==
    CASE v.t = "str" -> Len(v.s) + 2
      [] v.t = "num" -> Digits(v.n)
      [] v.t = "bool" -> IF v.b THEN 4 ELSE 5
      [] v.t = "id" -> 33
      [] v.t = "digest" -> 18
      [] v.t = "summary" -> SummaryLen(v.of)
      [] v.t = "key_points" -> KeyPointsLen(v.of)

RECURSIVE JsonItemsLen(_)
\* the items of a dict as json.dumps writes them: "key": value, joined by ", "
JsonItemsLen(items) ==
    IF items = <<>> THEN 0
    ELSE (Len(items[1].k) + 2) + 2 + JsonValueLen(items[1].v)
         + (IF Len(items) > 1 THEN 2 ELSE 0) + JsonItemsLen(Tail(items))

\* len(json.dumps(content))
JsonLen(content) == 2 + JsonItemsLen(content)

\* ConsciousnessPacket._estimate_tokens
EstimateTokens(content) == JsonLen(content) \div 4

\* the keys used by the model's contents, in sort order
KeyRank(k) ==
    CASE k = "a" -> 1 [] k = "b" -> 2 [] k = "c" -> 3
      [] k = "compressed" -> 4 [] k = "key_points" -> 5
      [] k = "original_checksum" -> 6 [] k = "original_id" -> 7
      [] k = "original_size" -> 8 [] k = "summary" -> 9
      [] OTHER -> 10

RECURSIVE SortKeys(_)
\* json.dumps(..., sort_keys=True): the items in key order (keys are unique)
SortKeys(items) ==
    IF items = <<>> THEN <<>>
    ELSE LET i == CHOOSE i \in 1..Len(items) :
                      \A j \in 1..Len(items) :
                          KeyRank(items[i].k) <= KeyRank(items[j].k)
             rest == [j \in 1..(Len(items) - 1) |->
                          IF j < i THEN items[j] ELSE items[j + 1]]
         IN  <<items[i]>> \o SortKeys(rest)

\* a digest that covers the keys of the content and leaves out the values
CalculateChecksumKeysOnly(content) ==
    [sha256 |-> [i \in 1..Len(content) |-> SortKeys(content)[i].k]]

\* ConsciousnessPacket._calculate_checksum: the digest of the canonical text
CalculateChecksum(content) == [sha256 |-> SortKeys(content)]

\* the value of a key of a content, <<>> when the key is absent
ContentGet(content, key) ==
    IF \E i \in 1..Len(content) : content[i].k = key
    THEN <<content[CHOOSE i \in 1..Len(content) : content[i].k = key].v>>
    ELSE <<>>

\* Python truthiness of a content value
ValueTruthy(v) ==
    CASE v.t = "bool" -> v.b
      [] v.t = "num" -> v.n # 0
      [] v.t = "str" -> v.s # ""
      [] OTHER -> TRUE

(* ------------------------------------------------------------- packet *)
\* the consent dict __init__ builds from its consent argument (absent: None)
InitConsent(doc) ==
    IF "consent" \notin DOMAIN doc
    THEN [public |-> FALSE, targets |-> <<>>, scopes |-> <<"read">>,
          expires_at |-> None]
    ELSE [public |-> Get(doc.consent, "public", FALSE),
          targets |-> Get(doc.consent, "targets", <<>>),
          scopes |-> Get(doc.consent, "scopes", <<"read">>),
          expires_at |-> Get(doc.consent, "expires_at", None)]

\* ConsciousnessPacket._generate_id: "cp_<time_ns>_<md5 of it>"
GenerateId(clock) == [src |-> "cp", n |-> clock]

\* an id that came with the wire data
WireId(n) == [src |-> "wire", n |-> n]

\* the metadata argument of __init__: a dict object already on the heap
\* ([ref |-> r]) or a new dict ([val |-> d]); "metadata or {}" replaces an
\* empty one by a new dict
MetaShared(marg, heap) == "ref" \in DOMAIN marg /\ heap[marg.ref] # EmptyDict

MetaRef(marg, heap) == IF MetaShared(marg, heap) THEN marg.ref ELSE Len(heap) + 1

\* self.metadata.update({created, version, token_count, checksum})
AutoMetadata(content, clock) ==
    [created |-> clock, version |-> "2.3.0",
     token_count |-> EstimateTokens(content),
     checksum |-> CalculateChecksum(content)]

\* the heap after __init__: the metadata object, updated in place
InitMetadata(marg, content, clock, heap) ==
    LET base == IF "ref" \in DOMAIN marg THEN heap[marg.ref] ELSE marg.val
        value == Update(base, AutoMetadata(content, clock))
    IN  IF MetaShared(marg, heap)
        THEN [heap EXCEPT ![marg.ref] = value]
        ELSE Append(heap, value)

\* ConsciousnessPacket.to_dict: consent, content and metadata are the packet's
\* own objects
ToDict(p) ==
    [id |-> p.id, type |-> PacketTypeValue(p.type),
     priority |-> PacketPriorityValue(p.priority), consent |-> p.consent,
     content |-> p.content, metadata |-> [ref |-> p.meta]]

\* ConsciousnessPacket.to_json: the text holds the metadata's value
ToJson(p, heap) ==
    [kind |-> "text",
     doc |-> [ToDict(p) EXCEPT !.metadata = [val |-> heap[p.meta]]]]

\* ConsciousnessPacket.from_dict on a mapping: the packet and the heap, or the
\* exception raised
FromDict(doc, clock, heap) ==
    IF \/ "type" \notin DOMAIN doc
       \/ ~PacketType(doc.type).ok
       \/ "priority" \notin DOMAIN doc
       \/ ~PacketPriority(doc.priority).ok
    THEN [ok |-> FALSE, exc |-> "PacketError", msg |-> "Invalid packet header",
          heap |-> heap]
    ELSE IF "content" \notin DOMAIN doc
    THEN [ok |-> FALSE, exc |-> "KeyError", msg |-> "content", heap |-> heap]
    ELSE LET marg == Get(doc, "metadata", [val |-> EmptyDict])
         IN  [ok |-> TRUE,
              packet |-> [id |-> Get(doc, "id", GenerateId(clock)),
                          type |-> PacketType(doc.type).member,
                          priority |-> PacketPriority(doc.priority).member,
                          content |-> doc.content,
                          consent |-> InitConsent(doc),
                          meta |-> MetaRef(marg, heap)],
              heap |-> InitMetadata(marg, doc.content, clock, heap)]

\* ConsciousnessPacket.verify_integrity
VerifyIntegrity(p, heap) ==
    /\ "checksum" \in DOMAIN heap[p.meta]
    /\ heap[p.meta].checksum = CalculateChecksum(p.content)

\* ConsciousnessPacket.is_expired: a ValueError of fromisoformat and the
\* TypeError of comparing a naive datetime with the aware now both give False
IsExpired(p, clock) ==
    LET e == p.consent.expires_at
        d == FromIsoFormat(e)
    IN  IF ~Truthy(e) THEN FALSE
        ELSE IF ~d.ok THEN FALSE
        ELSE IF ~d.tz THEN FALSE
        ELSE d.t < clock

(* -------------------------------------------------------------- store *)
\* a pruning that keeps the oldest entries (buf[:MAX_BUFFER_SIZE])
PruneBufferKeepsOldest(buf) ==
    IF Len(buf) > MAX_BUFFER_SIZE THEN SubSeq(buf, 1, MAX_BUFFER_SIZE) ELSE buf

\* PacketHandler._prune_buffers, on one buffer
PruneBuffer(buf) ==
    IF Len(buf) > MAX_BUFFER_SIZE THEN LastN(buf, MAX_BUFFER_SIZE) ELSE buf

\* an identity layer that keeps the first IDENTITY packet it was given
RouteIdentityKeepsFirst(p, layer) ==
    IF p.type = "IDENTITY" /\ layer = <<>> THEN <<p>> ELSE layer

\* a session tier that, when full, keeps its oldest entries
RouteSessionKeepsOldest(p, mem) ==
    IF p.type = "SESSION"
    THEN IF Len(mem) + 1 > SESSION_CAPACITY
         THEN SubSeq(Append(mem, p), 1, SESSION_CAPACITY)
         ELSE Append(mem, p)
    ELSE mem

\* PacketHandler._route_packet, per tier
RouteIdentity(p, layer) == IF p.type = "IDENTITY" THEN <<p>> ELSE layer

RouteSession(p, mem) ==
    IF p.type = "SESSION"
    THEN IF Len(mem) + 1 > SESSION_CAPACITY
         THEN LastN(Append(mem, p), SESSION_CAPACITY)
         ELSE Append(mem, p)
    ELSE mem

RouteContext(p, layers) ==
    IF p.type = "CONTEXT"
    THEN IF Len(layers) + 1 > CONTEXT_CAPACITY
         THEN LastN(Append(layers, p), CONTEXT_CAPACITY)
         ELSE Append(layers, p)
    ELSE layers

\* the input of receive_packet as far as from_dict: the packet and the heap,
\* or the exception raised
Parse(input, clock, heap) ==
    IF input.kind = "badtext"
    THEN [ok |-> FALSE, exc |-> "PacketError",
          msg |-> "Invalid JSON in packet data", heap |-> heap]
    ELSE IF input.kind = "other"
    THEN [ok |-> FALSE, exc |-> "PacketError",
          msg |-> "Unsupported packet format", heap |-> heap]
    ELSE IF input.kind = "text_array"
    THEN [ok |-> FALSE, exc |-> "TypeError", msg |-> "list indices",
          heap |-> heap]
    ELSE FromDict(input.doc, clock, heap)

\* receive_packet up to the end of validation: the packet and the heap, or the
\* exception raised and the heap as the failed call leaves it
Validate(input, clock, heap) ==
    LET r == Parse(input, clock, heap)
    IN  IF ~r.ok THEN r
        ELSE IF ~VerifyIntegrity(r.packet, r.heap)
        THEN [ok |-> FALSE, exc |-> "IntegrityError",
              msg |-> "failed integrity check",
              heap |-> IF r.packet.meta <= Len(heap) THEN r.heap ELSE heap]
        ELSE IF IsExpired(r.packet, clock)
        THEN [ok |-> FALSE, exc |-> "ConsentError",
              msg |-> "has expired consent",
              heap |-> IF r.packet.meta <= Len(heap) THEN r.heap ELSE heap]
        ELSE r

\* PacketHandler.receive_packet
ReceivePacket(input) ==
    LET r == Validate(input, now, metas)
    IN  /\ metas' = r.heap
        /\ nops' = nops + 1
        /\ IF r.ok
           THEN /\ incoming_buffer' = PruneBuffer(Append(incoming_buffer, r.packet))
                /\ identity_layer' = RouteIdentity(r.packet, identity_layer)
                /\ session_memory' = RouteSession(r.packet, session_memory)
                /\ context_layers' = RouteContext(r.packet, context_layers)
                /\ outgoing_buffer' = PruneBuffer(outgoing_buffer)
                /\ received' = Append(received, r.packet)
                /\ last' = [op |-> "receive", input |-> input, ok |-> TRUE,
                            exc |-> "", ret |-> <<r.packet>>]
           ELSE /\ UNCHANGED <<incoming_buffer, outgoing_buffer,
                               identity_layer, session_memory, context_layers,
                               received>>
                /\ last' = [op |-> "receive", input |-> input, ok |-> FALSE,
                            exc |-> r.exc, ret |-> <<>>]
        /\ UNCHANGED <<now, files, index, emitted, extra>>

(* receive_packet statement by statement, as the threads of the host run *)
(* it: a thread can be preempted between any two statements that read or   *)
(* write an attribute of the handler, and inside "self.x = self.x[-n:]"    *)
(* between the slice and the assignment.                                   *)
\* a slice that keeps the oldest entries (buf[:n])
SliceOldest(buf, n) == SubSeq(buf, 1, Min(n, Len(buf)))

\* buf[-n:]
Slice(buf, n) == LastN(buf, n)

\* the call of the thread goes on to the statement given
ReceiveGoto(t, pc) ==
    /\ receiving' = [receiving EXCEPT ![t].pc = pc]
    /\ UNCHANGED <<received, last>>

\* the call holds the list it has just sliced and goes on to assign it
ReceiveHold(t, pc, snapshot) ==
    /\ receiving' = [receiving EXCEPT
                         ![t] = [@ EXCEPT !.pc = pc, !.snapshot = snapshot]]
    /\ UNCHANGED <<received, last>>

\* return packet
ReceiveReturn(t) ==
    /\ receiving' = [receiving EXCEPT ![t] = Idle]
    /\ received' = Append(received, receiving[t].packet)
    /\ last' = [op |-> "receive", input |-> receiving[t].input, ok |-> TRUE,
                exc |-> "", ret |-> <<receiving[t].packet>>]

\* what a statement of a call in progress leaves alone
ReceiveFrame ==
    UNCHANGED <<now, metas, files, index, emitted, nops, built, asbuilt,
                emitting, max_packet_size, compression_threshold, serialized>>

\* the call of the thread raises.  The metadata dict of its packet goes with
\* the packet when from_dict made it, no dict was made since, and no other
\* packet holds it: neither one of a call in progress nor one the handler or
\* a caller was given.
ReceiveRaise(t, exc) ==
    LET meta == receiving[t].packet.meta
        calls == {u \in Threads \ {t} : receiving[u] # Idle}
        held == Range(incoming_buffer) \cup Range(outgoing_buffer)
                    \cup Range(identity_layer) \cup Range(session_memory)
                    \cup Range(context_layers) \cup Range(received)
                    \cup Range(emitted) \cup Range(built)
                    \cup {receiving[u].packet : u \in calls}
    IN  /\ receiving' = [receiving EXCEPT ![t] = Idle]
        /\ last' = [op |-> "receive", input |-> receiving[t].input,
                    ok |-> FALSE, exc |-> exc, ret |-> <<>>]
        /\ metas' = IF /\ receiving[t].fresh
                       /\ meta = Len(metas)
                       /\ \A p \in held : p.meta # meta
                    THEN SubSeq(metas, 1, Len(metas) - 1)
                    ELSE metas
        /\ UNCHANGED received

\* a thread calls receive_packet: parsing and from_dict, whose __init__
\* updates the metadata dict it is given.  Under the callers' lock no call
\* starts while another is in progress.
ReceiveBegin(t, input) ==
    LET r == Parse(input, now, metas)
    IN  /\ receiving[t] = Idle
        /\ serialized => \A u \in Threads : receiving[u] = Idle
        /\ metas' = r.heap
        /\ nops' = nops + 1
        /\ IF r.ok
           THEN /\ receiving' = [receiving EXCEPT
                                    ![t] = [pc |-> "verify", input |-> input,
                                            packet |-> r.packet,
                                            fresh |-> r.packet.meta > Len(metas),
                                            snapshot |-> <<>>]]
                /\ UNCHANGED last
           ELSE /\ last' = [op |-> "receive", input |-> input, ok |-> FALSE,
                            exc |-> r.exc, ret |-> <<>>]
                /\ UNCHANGED receiving
        /\ UNCHANGED <<now, incoming_buffer, outgoing_buffer, identity_layer,
                       session_memory, context_layers, files, index, received,
                       emitted, built, asbuilt, emitting, max_packet_size,
                       compression_threshold, serialized>>

\* "if not packet.verify_integrity(): raise IntegrityError": the checksum is
\* read from the metadata dict as it is now
ReceiveVerify(t) ==
    /\ receiving[t].pc = "verify"
    /\ IF VerifyIntegrity(receiving[t].packet, metas)
       THEN ReceiveGoto(t, "expired") /\ UNCHANGED metas
       ELSE ReceiveRaise(t, "IntegrityError")
    /\ UNCHANGED <<now, store, files, index, emitted, nops, built, asbuilt,
                   emitting, max_packet_size, compression_threshold,
                   serialized>>

\* "if packet.is_expired(): raise ConsentError"
ReceiveExpired(t) ==
    /\ receiving[t].pc = "expired"
    /\ IF IsExpired(receiving[t].packet, now)
       THEN ReceiveRaise(t, "ConsentError")
       ELSE ReceiveGoto(t, "append") /\ UNCHANGED metas
    /\ UNCHANGED <<now, store, files, index, emitted, nops, built, asbuilt,
                   emitting, max_packet_size, compression_threshold,
                   serialized>>

\* self.incoming_buffer.append(packet)
ReceiveAppend(t) ==
    /\ receiving[t].pc = "append"
    /\ incoming_buffer' = Append(incoming_buffer, receiving[t].packet)
    /\ ReceiveGoto(t, "test_in")
    /\ UNCHANGED <<outgoing_buffer, identity_layer, session_memory,
                   context_layers>>
    /\ ReceiveFrame

\* _prune_buffers: "if len(self.incoming_buffer) > self.MAX_BUFFER_SIZE" and
\* "if len(self.outgoing_buffer) > self.MAX_BUFFER_SIZE"
ReceivePrune(t) ==
    /\ receiving[t].pc \in {"test_in", "test_out"}
    /\ IF receiving[t].pc = "test_in"
       THEN IF Len(incoming_buffer) > MAX_BUFFER_SIZE
            THEN ReceiveGoto(t, "slice_in")
            ELSE ReceiveGoto(t, "test_out")
       ELSE IF Len(outgoing_buffer) > MAX_BUFFER_SIZE
            THEN ReceiveGoto(t, "slice_out")
            ELSE ReceiveGoto(t, "route")
    /\ UNCHANGED store
    /\ ReceiveFrame

\* the right-hand side of "self.x = self.x[-n:]": the slice of the list the
\* attribute holds when the statement is reached
ReceiveSlice(t) ==
    LET pc == receiving[t].pc
        tier == receiving[t].packet.type
    IN  /\ pc \in {"slice_in", "slice_out", "slice_tier"}
        /\ CASE pc = "slice_in" ->
                  ReceiveHold(t, "store_in",
                              Slice(incoming_buffer, MAX_BUFFER_SIZE))
             [] pc = "slice_out" ->
                  ReceiveHold(t, "store_out",
                              Slice(outgoing_buffer, MAX_BUFFER_SIZE))
             [] pc = "slice_tier" /\ tier = "SESSION" ->
                  ReceiveHold(t, "store_tier",
                              Slice(session_memory, SESSION_CAPACITY))
             [] pc = "slice_tier" /\ tier = "CONTEXT" ->
                  ReceiveHold(t, "store_tier",
                              Slice(context_layers, CONTEXT_CAPACITY))
        /\ UNCHANGED store
        /\ ReceiveFrame

\* the assignment of the slice to the attribute it was taken from
ReceiveStore(t) ==
    LET pc == receiving[t].pc
        snapshot == receiving[t].snapshot
        tier == receiving[t].packet.type
    IN  /\ pc \in {"store_in", "store_out", "store_tier"}
        /\ incoming_buffer' =
               IF pc = "store_in" THEN snapshot ELSE incoming_buffer
        /\ outgoing_buffer' =
               IF pc = "store_out" THEN snapshot ELSE outgoing_buffer
        /\ session_memory' =
               IF pc = "store_tier" /\ tier = "SESSION" THEN snapshot
               ELSE session_memory
        /\ context_layers' =
               IF pc = "store_tier" /\ tier = "CONTEXT" THEN snapshot
               ELSE context_layers
        /\ UNCHANGED identity_layer
        /\ CASE pc = "store_in" -> ReceiveGoto(t, "test_out")
             [] pc = "store_out" -> ReceiveGoto(t, "route")
             [] pc = "store_tier" -> ReceiveReturn(t)
        /\ ReceiveFrame

\* _route_packet: the tests of packet.type and the statement of the branch
\* taken, "self.identity_layer = packet" or the append to the tier
ReceiveRoute(t) ==
    LET p == receiving[t].packet
    IN  /\ receiving[t].pc = "route"
        /\ CASE p.type = "IDENTITY" ->
                  /\ identity_layer' = <<p>>
                  /\ ReceiveReturn(t)
                  /\ UNCHANGED <<session_memory, context_layers>>
             [] p.type = "SESSION" ->
                  /\ session_memory' = Append(session_memory, p)
                  /\ ReceiveGoto(t, "test_tier")
                  /\ UNCHANGED <<identity_layer, context_layers>>
             [] p.type = "CONTEXT" ->
                  /\ context_layers' = Append(context_layers, p)
                  /\ ReceiveGoto(t, "test_tier")
                  /\ UNCHANGED <<identity_layer, session_memory>>
             [] OTHER ->
                  /\ ReceiveReturn(t)
                  /\ UNCHANGED <<identity_layer, session_memory,
                                 context_layers>>
        /\ UNCHANGED <<incoming_buffer, outgoing_buffer>>
        /\ ReceiveFrame

\* _route_packet: "if len(self.session_memory) > 10" and
\* "if len(self.context_layers) > 20"; the call returns when the test fails
ReceiveTrim(t) ==
    LET over == IF receiving[t].packet.type = "SESSION"
                THEN Len(session_memory) > SESSION_CAPACITY
                ELSE Len(context_layers) > CONTEXT_CAPACITY
    IN  /\ receiving[t].pc = "test_tier"
        /\ IF over THEN ReceiveGoto(t, "slice_tier") ELSE ReceiveReturn(t)
        /\ UNCHANGED store
        /\ ReceiveFrame

\* the except clause of _persist_packet: tmp.exists() and tmp.unlink() return,
\* or one of them raises (the path is too long, is a directory, cannot be
\* removed)
CleanupOutcomes == {"removed", "raises"}

\* PacketHandler._persist_packet and _index_packet, by where the I/O fails:
\* the exception emit_packet raises ("" when it returns).  An exception of
\* the except clause leaves in place of the PacketError it was to raise.
PersistRaises(io, cleanup) ==
    CASE io = "mkdir_fails" -> "OSError"
      [] io \in {"write_fails", "rename_fails"} ->
            IF cleanup = "raises" THEN "OSError" ELSE "PacketError"
      [] OTHER -> ""

\* the storage directory: a function from the paths that exist to what a
\* reader finds there.  All calls of a behaviour fall on one date.
NoFiles == [path \in {} |-> TRUE]

\* date_dir / f".{packet.id}.json.tmp" and date_dir / f"{packet.id}.json"
TmpPath(id) == [name |-> "tmp", id |-> id]
FinalPath(id) == [name |-> "final", id |-> id]

\* a file holding the whole text, and one holding the part written so far
Complete(text) == [complete |-> TRUE, text |-> text]
Partial(text) == [complete |-> FALSE, text |-> text]

\* open(path, "w") followed by writes
FsWrite(fs, path, data) ==
    [q \in DOMAIN fs \cup {path} |-> IF q = path THEN data ELSE fs[q]]

\* if path.exists(): path.unlink()
FsUnlink(fs, path) == [q \in DOMAIN fs \ {path} |-> fs[q]]

\* src.replace(dst): an atomic rename
FsReplace(fs, from, to) == FsUnlink(FsWrite(fs, to, fs[from]), from)

\* a write that goes straight to the final path
WriteTargetFinal(id) == FinalPath(id)

\* the path tmp.write_text writes to
WriteTarget(id) == TmpPath(id)

\* the storage directory after a whole call of _persist_packet: what the
\* call can leave.  A write that fails has failed at the open or later; when
\* the cleanup raises the temp file is left as the failure found or made it.
PersistFiles(p, io, cleanup, fs, heap) ==
    LET tmp == TmpPath(p.id)
        text == ToJson(p, heap)
    IN  CASE io = "mkdir_fails" -> {fs}
          [] io = "write_fails" ->
                IF cleanup = "raises"
                THEN {fs, FsWrite(fs, tmp, Partial(text))}
                ELSE {FsUnlink(fs, tmp)}
          [] io = "rename_fails" ->
                IF cleanup = "raises"
                THEN {FsWrite(fs, tmp, Complete(text))}
                ELSE {FsUnlink(fs, tmp)}
          [] OTHER -> {FsReplace(FsWrite(fs, tmp, Complete(text)), tmp,
                                 FinalPath(p.id))}

\* index.jsonl: a line that is the JSON entry of a packet and ends in its
\* newline is the id it names; any other line is the pieces of the entries
\* written into it (each whole, or a part only) and whether its newline is
\* still to come
Broken(pieces, open) == [pieces |-> pieces, open |-> open]

\* the line reads as the JSON entry of one packet: a line of one whole entry
\* does so with or without its newline
IsEntry(line) ==
    \/ "pieces" \notin DOMAIN line
    \/ Len(line.pieces) = 1 /\ line.pieces[1].whole

\* the last line has no newline yet: what is appended goes into it
LastOpen(idx) ==
    /\ idx # <<>>
    /\ "pieces" \in DOMAIN idx[Len(idx)]
    /\ idx[Len(idx)].open

\* f.write(index_entry + "\n") in append mode, written whole
AppendLine(idx, id) ==
    IF LastOpen(idx)
    THEN [idx EXCEPT ![Len(idx)] =
              Broken(Append(@.pieces, [id |-> id, whole |-> TRUE]), FALSE)]
    ELSE Append(idx, id)

\* the same write stopped short of the newline (disk full, quota): after a
\* part of the entry, or after the whole entry
AppendTorn(idx, id, whole) ==
    IF LastOpen(idx)
    THEN [idx EXCEPT ![Len(idx)] =
              Broken(Append(@.pieces, [id |-> id, whole |-> whole]), TRUE)]
    ELSE Append(idx, Broken(<<[id |-> id, whole |-> whole]>>, TRUE))

\* index.jsonl after _index_packet: what the call can leave.  A write that
\* fails has written nothing, a part of the entry, or the entry without its
\* newline.
IndexPacket(p, io, idx) ==
    CASE io = "ok" -> {AppendLine(idx, p.id)}
      [] io = "index_fails" ->
            {idx} \cup {AppendTorn(idx, p.id, whole) : whole \in BOOLEAN}
      [] OTHER -> {idx}

IoOutcomes == {"ok", "mkdir_fails", "write_fails", "rename_fails", "index_fails"}

\* PacketHandler.emit_packet
EmitPacket(p, io) ==
    \E cleanup \in CleanupOutcomes :
        /\ outgoing_buffer' = PruneBuffer(Append(outgoing_buffer, p))
        /\ incoming_buffer' = PruneBuffer(incoming_buffer)
        /\ files' \in PersistFiles(p, io, cleanup, files, metas)
        /\ index' \in IndexPacket(p, io, index)
        /\ emitted' = Append(emitted, p)
        /\ nops' = nops + 1
        /\ last' = [op |-> "emit", input |-> p,
                    ok |-> PersistRaises(io, cleanup) = "",
                    exc |-> PersistRaises(io, cleanup),
                    ret |-> IF PersistRaises(io, cleanup) = ""
                            THEN <<ToJson(p, metas)>> ELSE <<>>]
        /\ UNCHANGED <<now, metas, identity_layer, session_memory,
                       context_layers, received, extra>>

\* the wall clock advances between calls
Tick ==
    /\ now < MaxTime
    /\ now' = now + 1
    /\ UNCHANGED <<metas, incoming_buffer, outgoing_buffer, identity_layer,
                   session_memory, context_layers, files, index, received,
                   emitted, nops, last, extra>>

(* emit_packet step by step: the calls of _persist_packet that touch the  *)
(* storage directory are separate steps, each of which can fail, and the    *)
(* process can die between any two of them.                                 *)
\* emit_packet up to the call of _persist_packet
EmitBegin(p) ==
    /\ emitting = <<>>
    /\ outgoing_buffer' = PruneBuffer(Append(outgoing_buffer, p))
    /\ incoming_buffer' = PruneBuffer(incoming_buffer)
    /\ emitted' = Append(emitted, p)
    /\ nops' = nops + 1
    /\ emitting' = <<[packet |-> p, pc |-> "mkdir"]>>
    /\ last' = [op |-> "emit_begin", input |-> p]
    /\ UNCHANGED <<now, metas, identity_layer, session_memory, context_layers,
                   files, index, received, built, asbuilt, max_packet_size,
                   compression_threshold, receiving, serialized>>

\* what a step of the call in progress leaves alone
PersistFrame ==
    UNCHANGED <<now, metas, incoming_buffer, outgoing_buffer, identity_layer,
                session_memory, context_layers, received, emitted, nops, built,
                asbuilt, max_packet_size, compression_threshold, receiving,
                serialized>>

\* the call goes on to its next step
PersistGoto(pc) ==
    /\ emitting' = <<[emitting[1] EXCEPT !.pc = pc]>>
    /\ UNCHANGED last

\* emit_packet raises
EmitRaise(exc) ==
    /\ emitting' = <<>>
    /\ last' = [op |-> "emit", input |-> emitting[1].packet, ok |-> FALSE,
                exc |-> exc, ret |-> <<>>]

\* emit_packet returns packet.to_json()
EmitReturn ==
    /\ emitting' = <<>>
    /\ last' = [op |-> "emit", input |-> emitting[1].packet, ok |-> TRUE,
                exc |-> "", ret |-> <<ToJson(emitting[1].packet, metas)>>]

\* the except clause of _persist_packet: the temp file is removed and
\* PacketError raised, or tmp.exists() or tmp.unlink() raises, which leaves
\* the directory as it is and the caller with that OSError
PersistCleanup ==
    \/ /\ files' = FsUnlink(files, TmpPath(emitting[1].packet.id))
       /\ EmitRaise("PacketError")
    \/ /\ files' = files
       /\ EmitRaise("OSError")

\* date_dir.mkdir(parents=True, exist_ok=True), before the try
PersistMkdir(succeeds) ==
    /\ emitting # <<>> /\ emitting[1].pc = "mkdir"
    /\ IF succeeds THEN PersistGoto("open") ELSE EmitRaise("OSError")
    /\ UNCHANGED <<files, index>>
    /\ PersistFrame

\* tmp.write_text: the file is opened for writing, which empties it
PersistOpen(succeeds) ==
    /\ emitting # <<>> /\ emitting[1].pc = "open"
    /\ IF succeeds
       THEN /\ files' = FsWrite(files, WriteTarget(emitting[1].packet.id),
                                Partial(ToJson(emitting[1].packet, metas)))
            /\ PersistGoto("write")
       ELSE PersistCleanup
    /\ UNCHANGED index
    /\ PersistFrame

\* tmp.write_text: the text is written and the file closed
PersistWrite(succeeds) ==
    /\ emitting # <<>> /\ emitting[1].pc = "write"
    /\ IF succeeds
       THEN /\ files' = FsWrite(files, WriteTarget(emitting[1].packet.id),
                                Complete(ToJson(emitting[1].packet, metas)))
            /\ PersistGoto("replace")
       ELSE PersistCleanup
    /\ UNCHANGED index
    /\ PersistFrame

\* tmp.replace(final)
PersistReplace(succeeds) ==
    /\ emitting # <<>> /\ emitting[1].pc = "replace"
    /\ IF succeeds /\ TmpPath(emitting[1].packet.id) \in DOMAIN files
       THEN /\ files' = FsReplace(files, TmpPath(emitting[1].packet.id),
                                  FinalPath(emitting[1].packet.id))
            /\ PersistGoto("index")
       ELSE PersistCleanup
    /\ UNCHANGED index
    /\ PersistFrame

\* an index failure that reaches the caller as the except clause would make it
IndexExceptionPropagates(appended) == IF appended THEN "" ELSE "PacketError"

\* what _index_packet raises: nothing, the failure of the append is passed over
IndexException(appended) == ""

\* _index_packet, then the return of emit_packet; an append that fails has
\* written nothing, a part of the entry, or the entry without its newline
PersistIndex(succeeds) ==
    /\ emitting # <<>> /\ emitting[1].pc = "index"
    /\ index' \in IF succeeds THEN {AppendLine(index, emitting[1].packet.id)}
                  ELSE {index} \cup {AppendTorn(index, emitting[1].packet.id,
                                                whole) : whole \in BOOLEAN}
    /\ IF IndexException(succeeds) = "" THEN EmitReturn
       ELSE EmitRaise(IndexException(succeeds))
    /\ UNCHANGED files
    /\ PersistFrame

\* the process dies during the call; a new handler is made on the same
\* storage directory.  A death at the append to index.jsonl comes before the
\* write, after a part of the entry, after the entry and before its newline,
\* or after the whole line and before emit_packet returns.
Crash ==
    /\ emitting # <<>>
    /\ index' \in IF emitting[1].pc = "index"
                  THEN {index, AppendLine(index, emitting[1].packet.id)}
                       \cup {AppendTorn(index, emitting[1].packet.id, whole) :
                                 whole \in BOOLEAN}
                  ELSE {index}
    /\ metas' = <<>>
    /\ incoming_buffer' = <<>>
    /\ outgoing_buffer' = <<>>
    /\ identity_layer' = <<>>
    /\ session_memory' = <<>>
    /\ context_layers' = <<>>
    /\ received' = <<>>
    /\ emitted' = <<>>
    /\ built' = <<>>
    /\ asbuilt' = <<>>
    /\ emitting' = <<>>
    /\ last' = [op |-> "crash"]
    /\ receiving' = [t \in Threads |-> Idle]
    /\ UNCHANGED <<now, files, nops, max_packet_size,
                   compression_threshold, serialized>>

Init ==
    /\ now = 0
    /\ metas = <<>>
    /\ incoming_buffer = <<>>
    /\ outgoing_buffer = <<>>
    /\ identity_layer = <<>>
    /\ session_memory = <<>>
    /\ context_layers = <<>>
    /\ files = NoFiles
    /\ index = <<>>
    /\ received = <<>>
    /\ emitted = <<>>
    /\ nops = 0
    /\ last = [op |-> "init"]
    /\ built = <<>>
    /\ asbuilt = <<>>
    /\ emitting = <<>>
    /\ max_packet_size = DEFAULT_MAX_PACKET_SIZE
    /\ compression_threshold = DEFAULT_COMPRESSION_THRESHOLD
    /\ receiving = [t \in Threads |-> Idle]
    /\ serialized = TRUE

(* ------------------------------------------------------ consent engine *)
\* a recipient or target string is the sequence of its characters
LowerChar(c) ==
    CASE c = "A" -> "a" [] c = "B" -> "b" [] c = "C" -> "c" [] c = "D" -> "d"
      [] c = "G" -> "g" [] c = "L" -> "l" [] c = "P" -> "p" [] c = "U" -> "u"
      [] c = "Z" -> "z" [] c = "I" -> "i"
      [] OTHER -> c

\* str.lower()
Lower(str) == [i \in 1..Len(str) |-> LowerChar(str[i])]

\* ":" in target
HasColon(target) == \E i \in 1..Len(target) : target[i] = ":"

\* target.split(":", 1): the text before the first colon and the text after it
SplitOnce(target) ==
    LET i == CHOOSE i \in 1..Len(target) :
                 target[i] = ":" /\ \A j \in 1..(i - 1) : target[j] # ":"
    IN  <<SubSeq(target, 1, i - 1), SubSeq(target, i + 1, Len(target))>>

\* a scope argument: None, or a string
NoScope == [kind |-> "none"]
Scope(s) == [kind |-> "str", s |-> s]

\* "if scope:"
ScopeTruthy(scope) == scope.kind = "str" /\ scope.s # ""

\* a scope test against the default scopes instead of the packet's
ScopeAllowedDefaultOnly(scope, consent) ==
    IF ScopeTruthy(scope) THEN scope.s \in {"read"} ELSE TRUE

\* the result once the packet is public or a target has matched
ScopeAllowed(scope, consent) ==
    IF ScopeTruthy(scope)
    THEN scope.s \in Range(Get(consent, "scopes", <<"read">>))
    ELSE TRUE

\* a match that looks for the recipient anywhere in the target
TargetMatchesSubstring(recipient_lower, target) ==
    \E i \in 1..(Len(target) + 1), j \in 0..Len(target) :
        SubSeq(Lower(target), i, j) = recipient_lower

\* the comparison of the recipient with one target
TargetMatches(recipient_lower, target) ==
    IF HasColon(target)
    THEN \/ recipient_lower = Lower(SplitOnce(target)[1])
         \/ recipient_lower = Lower(SplitOnce(target)[2])
    ELSE recipient_lower = Lower(target)

RECURSIVE ScanTargets(_, _, _, _)
\* the loop over consent["targets"]: the first match decides
ScanTargets(targets, recipient_lower, scope, consent) ==
    IF targets = <<>> THEN FALSE
    ELSE IF TargetMatches(recipient_lower, targets[1])
    THEN ScopeAllowed(scope, consent)
    ELSE ScanTargets(Tail(targets), recipient_lower, scope, consent)

\* the expiry test can_share_with makes first
ShareExpired(p, clock) == IsExpired(p, clock)

\* PacketHandler.can_share_with
CanShareWith(p, recipient, scope, clock) ==
    IF ShareExpired(p, clock) THEN FALSE
    ELSE IF p.consent.public THEN ScopeAllowed(scope, p.consent)
    ELSE ScanTargets(p.consent.targets, Lower(recipient), scope, p.consent)

\* a call of can_share_with on a packet the caller holds
CanShare(p, recipient, scope) ==
    /\ nops' = nops + 1
    /\ last' = [op |-> "can_share", packet |-> p, recipient |-> recipient,
                scope |-> scope, clock |-> now, ok |-> TRUE, exc |-> "",
                ret |-> CanShareWith(p, recipient, scope, now)]
    /\ UNCHANGED <<now, metas, incoming_buffer, outgoing_buffer, identity_layer,
                   session_memory, context_layers, files, index, received,
                   emitted, extra>>

RECURSIVE FilterPacketsForRecipient(_, _, _, _)
\* PacketHandler.filter_packets_for_recipient
FilterPacketsForRecipient(packets, recipient, scope, clock) ==
    IF packets = <<>> THEN <<>>
    ELSE (IF CanShareWith(packets[1], recipient, scope, clock)
          THEN <<packets[1]>> ELSE <<>>)
         \o FilterPacketsForRecipient(Tail(packets), recipient, scope, clock)

\* a call of filter_packets_for_recipient on a list of packets
Filter(packets, recipient, scope) ==
    /\ nops' = nops + 1
    /\ last' = [op |-> "filter", packets |-> packets, recipient |-> recipient,
                scope |-> scope, ok |-> TRUE, exc |-> "",
                ret |-> FilterPacketsForRecipient(packets, recipient, scope,
                                                  now)]
    /\ UNCHANGED <<now, metas, incoming_buffer, outgoing_buffer, identity_layer,
                   session_memory, context_layers, files, index, received,
                   emitted, extra>>

(* -------------------------------------------------------------- codec *)
\* json.loads of the text to_json wrote
JsonLoads(text) == text.doc

\* a deserialization that leaves the packet the id its constructor generated
DeserializeFreshId(text, clock, heap) ==
    FromDict([k \in DOMAIN JsonLoads(text) \ {"id"} |-> JsonLoads(text)[k]],
             clock, heap)

\* deserialize(text): from_dict(json.loads(text))
Deserialize(text, clock, heap) == FromDict(JsonLoads(text), clock, heap)

\* deserialize(serialize(p)) by a caller that holds p
RoundTrip(p) ==
    LET r == Deserialize(ToJson(p, metas), now, metas)
    IN  /\ nops' = nops + 1
        /\ last' = [op |-> "roundtrip", packet |-> p, ok |-> r.ok, exc |-> "",
                    ret |-> IF r.ok
                            THEN <<[packet |-> r.packet,
                                    metadata |-> r.heap[r.packet.meta]]>>
                            ELSE <<>>]
        /\ UNCHANGED <<now, metas, incoming_buffer, outgoing_buffer,
                       identity_layer, session_memory, context_layers, files,
                       index, received, emitted, extra>>

(* ------------------------------------------------------ reconstructor *)
\* a sort that puts the most recent first among equal priorities
SortKeyLeqNewestFirst(p, q, heap) ==
    \/ PacketPriorityValue(p.priority) < PacketPriorityValue(q.priority)
    \/ /\ PacketPriorityValue(p.priority) = PacketPriorityValue(q.priority)
       /\ heap[p.meta].created >= heap[q.meta].created

\* the sort key of _select_packets_by_priority: (priority.value, created)
SortKeyLeq(p, q, heap) ==
    \/ PacketPriorityValue(p.priority) < PacketPriorityValue(q.priority)
    \/ /\ PacketPriorityValue(p.priority) = PacketPriorityValue(q.priority)
       /\ heap[p.meta].created <= heap[q.meta].created

RECURSIVE InsertSorted(_, _, _)
\* p put behind every packet whose key is not greater (a stable sort)
InsertSorted(p, sorted, heap) ==
    IF sorted = <<>> THEN <<p>>
    ELSE IF SortKeyLeq(sorted[1], p, heap)
    THEN <<sorted[1]>> \o InsertSorted(p, Tail(sorted), heap)
    ELSE <<p>> \o sorted

RECURSIVE SortedPool(_, _)
\* sorted(pool, key=...), Python's stable sort
SortedPool(pool, heap) ==
    IF pool = <<>> THEN <<>>
    ELSE InsertSorted(pool[Len(pool)], SortedPool(SubSeq(pool, 1, Len(pool) - 1), heap),
                      heap)

\* the label _select_packets_by_priority gives a packet
TypeLabel(p) ==
    IF p.type = "SESSION" THEN "session"
    ELSE IF p.type = "CONTEXT" THEN "context"
    ELSE PacketTypeValue(p.type)

\* the test that ends the walk of _select_packets_by_priority
StopWalk(budget) == budget < RESERVE_MARGIN

\* an admission test against the reserve margin instead of the budget left
FitsReserve(tokens, budget) == tokens <= RESERVE_MARGIN

\* the test that admits a packet of the pool
Fits(tokens, budget) == tokens <= budget

RECURSIVE Walk(_, _, _, _)
\* the loop of _select_packets_by_priority from position i on
Walk(sorted, i, budget, heap) ==
    IF i > Len(sorted) THEN <<>>
    ELSE LET packet == sorted[i]
             tokens == Get(heap[packet.meta], "token_count", 0)
             take == Fits(tokens, budget)
             left == IF take THEN budget - tokens ELSE budget
         IN  (IF take THEN <<packet>> ELSE <<>>)
             \o (IF StopWalk(left) THEN <<>> ELSE Walk(sorted, i + 1, left, heap))

\* PacketHandler._select_packets_by_priority: the packets picked, in order
SelectPacketsByPriority(pool, budget, heap) ==
    Walk(SortedPool(pool, heap), 1, budget, heap)

\* an identity packet that is put first whether or not it fits the budget
IdentityIncludedUnfitted(token_budget, include_identity, layer, heap) ==
    include_identity /\ layer # <<>>

\* whether reconstruct_context puts the identity packet first
IdentityIncluded(token_budget, include_identity, layer, heap) ==
    /\ include_identity
    /\ layer # <<>>
    /\ heap[layer[1].meta].token_count <= token_budget

Layer(label, p, heap) ==
    [type |-> label, content |-> p.content, tokens |-> heap[p.meta].token_count]

RECURSIVE SumTokens(_)
SumTokens(layers) ==
    IF layers = <<>> THEN 0 ELSE layers[1].tokens + SumTokens(Tail(layers))

RECURSIVE Unexpired(_, _)
\* the packets of a list whose consent window has not passed
Unexpired(pool, clock) ==
    IF pool = <<>> THEN <<>>
    ELSE (IF IsExpired(pool[1], clock) THEN <<>> ELSE <<pool[1]>>)
         \o Unexpired(Tail(pool), clock)

\* a pool swept of the packets whose consent window has passed
CandidatePoolUnexpired(session, context, clock) ==
    Unexpired(session \o context, clock)

\* all_packets = self.session_memory + self.context_layers
CandidatePool(session, context, clock) == session \o context

\* PacketHandler.reconstruct_context; packets lists the packet behind each layer
ReconstructContext(token_budget, include_identity, layer, session, context, heap, clock) ==
    LET withId == IdentityIncluded(token_budget, include_identity, layer, heap)
        idLayers == IF withId THEN <<Layer("identity", layer[1], heap)>> ELSE <<>>
        remaining == token_budget - SumTokens(idLayers)
        selected == SelectPacketsByPriority(
                        CandidatePool(session, context, clock), remaining, heap)
        layers == idLayers
                  \o [i \in 1..Len(selected) |->
                         Layer(TypeLabel(selected[i]), selected[i], heap)]
        left == token_budget - SumTokens(layers)
    IN  [timestamp |-> NowIso(clock),
         layers |-> layers,
         handler_version |-> "2.3.0",
         total_tokens |-> token_budget - left,
         remaining_tokens |-> left,
         packets |-> (IF withId THEN <<layer[1]>> ELSE <<>>) \o selected]

\* a call of reconstruct_context
Reconstruct(token_budget, include_identity) ==
    /\ nops' = nops + 1
    /\ last' = [op |-> "reconstruct", budget |-> token_budget,
                include_identity |-> include_identity, ok |-> TRUE, exc |-> "",
                ret |-> ReconstructContext(token_budget, include_identity,
                                           identity_layer, session_memory,
                                           context_layers, metas, now)]
    /\ UNCHANGED <<now, metas, incoming_buffer, outgoing_buffer, identity_layer,
                   session_memory, context_layers, files, index, received,
                   emitted, extra>>

(* ------------------------------------------------------------ factory *)
\* create_packet's priority_map: the priority of a type when none is given
DefaultPriority(type) ==
    CASE type = "IDENTITY" -> "CRITICAL"
      [] type = "HANDOVER" -> "HIGH"
      [] type = "SESSION" -> "MEDIUM"
      [] type = "CONTEXT" -> "MEDIUM"
      [] type = "SYNC" -> "LOW"
      [] type = "CHECKPOINT" -> "HIGH"

\* the content _compress_packet builds from the original packet
CompressedContent(id, content, metadata) ==
    <<[k |-> "compressed", v |-> Bool(TRUE)],
      [k |-> "original_id", v |-> IdValue(id)],
      [k |-> "original_checksum", v |-> DigestValue(metadata.checksum)],
      [k |-> "original_size", v |-> Num(metadata.token_count)],
      [k |-> "summary", v |-> SummaryValue(content)],
      [k |-> "key_points", v |-> KeyPointsValue(content)]>>

\* the metadata of the packet _compress_packet returns: a copy of the
\* original's, updated by __init__ for the compressed content, then marked
CompressedMetadata(content, metadata, clock) ==
    Update(Update(metadata, AutoMetadata(content, clock)),
           [compressed |-> TRUE, original_checksum |-> metadata.checksum])

\* a size check that also turns away a content of exactly the maximum
ExceedsAtLimit(tokens, max) == tokens >= max

\* create_packet's size check, on the token count of the content given
Exceeds(tokens, max) == tokens > max

\* a compression made only of contents that are strictly below the maximum
NeedsCompressionBelowMax(tokens, threshold, max) ==
    tokens > threshold /\ tokens < max

\* create_packet's compression test
NeedsCompression(tokens, threshold, max) == tokens > threshold

\* PacketHandler.create_packet with the clock read by the constructor of the
\* packet (clock) and by that of its compressed replacement (clock2): the
\* packet and the heap, or the exception raised.  The metadata of an original
\* that is replaced is no longer referenced and is left off the heap.
CreatePacket(args, clock, clock2, heap, max, threshold) ==
    LET type == args.packet_type
        priority == IF "priority" \in DOMAIN args THEN args.priority
                    ELSE DefaultPriority(type)
        metadata == AutoMetadata(args.content, clock)
        id == GenerateId(clock)
        consent == InitConsent(args)
        compressed == CompressedContent(id, args.content, metadata)
    IN  IF Exceeds(metadata.token_count, max)
        THEN [ok |-> FALSE, exc |-> "PacketError",
              msg |-> "Packet exceeds maximum size", heap |-> heap]
        ELSE IF NeedsCompression(metadata.token_count, threshold, max)
        THEN [ok |-> TRUE,
              packet |-> [id |-> GenerateId(clock2), type |-> type,
                          priority |-> priority, content |-> compressed,
                          consent |-> InitConsent([consent |-> consent]),
                          meta |-> Len(heap) + 1],
              heap |-> Append(heap, CompressedMetadata(compressed, metadata,
                                                       clock2))]
        ELSE [ok |-> TRUE,
              packet |-> [id |-> id, type |-> type, priority |-> priority,
                          content |-> args.content, consent |-> consent,
                          meta |-> Len(heap) + 1],
              heap |-> Append(heap, metadata)]

\* a call of create_packet during which the clock advances by `elapsed`
Create(args, elapsed) ==
    LET r == CreatePacket(args, now, now + elapsed, metas, max_packet_size,
                          compression_threshold)
    IN  /\ now' = now + elapsed
        /\ metas' = r.heap
        /\ built' = IF r.ok THEN Append(built, r.packet) ELSE built
        /\ asbuilt' = IF r.ok THEN Append(asbuilt, r.packet.content) ELSE asbuilt
        /\ nops' = nops + 1
        /\ last' = [op |-> "create", input |-> args, ok |-> r.ok,
                    exc |-> IF r.ok THEN "" ELSE r.exc,
                    ret |-> IF r.ok THEN <<r.packet>> ELSE <<>>]
        /\ UNCHANGED <<incoming_buffer, outgoing_buffer, identity_layer,
                       session_memory, context_layers, files, index, received,
                       emitted, emitting, max_packet_size,
                       compression_threshold, receiving, serialized>>

\* packet.content[key] = value
SetItem(content, key, value) ==
    [i \in 1..Len(content) |->
        IF content[i].k = key THEN [k |-> key, v |-> value] ELSE content[i]]

\* every reference to the packet object p, now holding q
Replaced(buf, p, q) == [i \in 1..Len(buf) |-> IF buf[i] = p THEN q ELSE buf[i]]

\* a caller changes the value of one key of the content of the i-th packet
\* it was given by create_packet, then calls verify_integrity on that packet
TamperThenVerify(i, key, value) ==
    LET p == built[i]
        q == [p EXCEPT !.content = SetItem(p.content, key, value)]
    IN  /\ \E j \in 1..Len(p.content) :
               p.content[j].k = key /\ p.content[j].v # value
        /\ built' = Replaced(built, p, q)
        /\ received' = Replaced(received, p, q)
        /\ emitted' = Replaced(emitted, p, q)
        /\ incoming_buffer' = Replaced(incoming_buffer, p, q)
        /\ outgoing_buffer' = Replaced(outgoing_buffer, p, q)
        /\ identity_layer' = Replaced(identity_layer, p, q)
        /\ session_memory' = Replaced(session_memory, p, q)
        /\ context_layers' = Replaced(context_layers, p, q)
        /\ nops' = nops + 1
        /\ last' = [op |-> "tamper", packet |-> q, constructed |-> asbuilt[i],
                    key |-> key, ok |-> TRUE, exc |-> "",
                    ret |-> VerifyIntegrity(q, metas)]
        /\ UNCHANGED <<now, metas, files, index, asbuilt, emitting,
                       max_packet_size, compression_threshold, receiving,
                       serialized>>

(* ------------------------------------------------------------- inputs *)
\* contents: {}, {"a": "x"} and {"b": "y", "a": "x"}
ContentEmpty == <<>>
ContentA == <<[k |-> "a", v |-> Str("x")]>>
ContentBA == <<[k |-> "b", v |-> Str("y")], [k |-> "a", v |-> Str("x")]>>

Doc(type, priority, content) ==
    [type |-> type, priority |-> priority, content |-> content]

Text(doc) == [kind |-> "text", doc |-> doc]
Dict(doc) == [kind |-> "dict", doc |-> doc]

WithExpiry(doc, e) == Update(doc, [consent |-> [expires_at |-> e]])

\* a wire checksum that is not the digest of the content sent with it
WithBadChecksum(doc) ==
    Update(doc, [metadata |-> [val |-> [checksum |->
                                  CalculateChecksum(ContentEmpty)]]])

ValidInputs ==
    {Text(Doc(PacketTypeValue(t), 3, ContentA)) : t \in PacketTypeMembers}

ExpiryInputs ==
    {Text(WithExpiry(Doc("session", 3, ContentA), e)) :
        e \in {IsoAware(1), IsoNaive(1), NotIso, EmptyString}}
    \cup {Dict(WithExpiry(Doc("identity", 1, ContentA), IsoAware(1)))}

DefectInputs ==
    {[kind |-> "badtext"], [kind |-> "other"], [kind |-> "text_array"],
     Text(Doc("invalid", 3, ContentA)),
     Text([type |-> "session", content |-> ContentA]),
     Dict(Doc("session", 5, ContentA)),
     Text([type |-> "session", priority |-> 3]),
     Text(WithBadChecksum(Doc("context", 3, ContentA))),
     Dict(WithBadChecksum(Doc("session", 3, ContentA)))}

\* what a caller makes of a packet it holds: its to_dict(), its to_dict() with
\* another content put in, and its to_json()
HeldInputs ==
    UNION {{Dict(ToDict(p)),
            Dict([ToDict(p) EXCEPT !.content = ContentBA]),
            ToJson(p, metas)} : p \in Range(received)}

WireInputs == ValidInputs \cup ExpiryInputs \cup DefectInputs \cup HeldInputs

(* ------------------------------------------------------ specifications *)
Receive == \E input \in WireInputs : nops < MaxOps /\ ReceivePacket(input)

Emit ==
    \E p \in Range(received), io \in IoOutcomes :
        nops < MaxOps /\ EmitPacket(p, io)

Next == Receive \/ Emit \/ Tick

Spec == Init /\ [][Next]_vars

RECURSIVE Rep(_, _)
\* s * n of a Python string
Rep(s, n) == IF n = 0 THEN "" ELSE s \o Rep(s, n - 1)

\* {"a": "xxx...x"}: 102 tokens
ContentBig == <<[k |-> "a", v |-> Str(Rep("xxxxxxxxxx", 40))]>>

(* SpecCreate: handlers with small limits; create, tamper, receive *)
\* operations per behaviour of SpecCreate
MaxCreateOps == 2

\* {"a": "xxx...x"} with 403 x: 103 tokens
ContentBigger == <<[k |-> "a", v |-> Str(Rep("xxxxxxxxxx", 40) \o "xxx")]>>

\* {"a": 12345, "b": "y"}: 5 tokens
ContentNum == <<[k |-> "a", v |-> Num(12345)], [k |-> "b", v |-> Str("y")]>>

\* {"a": "xxxxxx"}: 15 characters, 3 tokens
ContentSix == <<[k |-> "a", v |-> Str("xxxxxx")]>>

\* (max_packet_size, compression_threshold) of the handlers
Limits == {<<5, 2>>, <<102, 5>>, <<2, 5>>,
           <<DEFAULT_MAX_PACKET_SIZE, DEFAULT_COMPRESSION_THRESHOLD>>}

InitCreate ==
    /\ now = 0
    /\ metas = <<>>
    /\ incoming_buffer = <<>>
    /\ outgoing_buffer = <<>>
    /\ identity_layer = <<>>
    /\ session_memory = <<>>
    /\ context_layers = <<>>
    /\ files = NoFiles
    /\ index = <<>>
    /\ received = <<>>
    /\ emitted = <<>>
    /\ nops = 0
    /\ last = [op |-> "init"]
    /\ built = <<>>
    /\ asbuilt = <<>>
    /\ emitting = <<>>
    /\ \E l \in Limits : max_packet_size = l[1] /\ compression_threshold = l[2]
    /\ receiving = [t \in Threads |-> Idle]
    /\ serialized = TRUE

\* arguments of create_packet: every type without a priority, and some with
\* a priority and a consent
CreateArgs ==
    {[packet_type |-> t, content |-> ContentA] : t \in PacketTypeMembers}
    \cup {[packet_type |-> "SESSION", content |-> c] :
             c \in {ContentEmpty, ContentSix, ContentBA, ContentNum, ContentBig,
                    ContentBigger}}
    \cup {[packet_type |-> "CONTEXT", content |-> c, priority |-> "LOW",
            consent |-> [public |-> TRUE, expires_at |-> IsoNaive(1)]] :
             c \in {ContentBA, ContentBig}}

\* the value a caller puts in
TamperValues == {Str("x"), Str("z"), Num(7)}

CreateCall ==
    \E args \in CreateArgs, elapsed \in {0, 1} :
        /\ nops < MaxCreateOps
        /\ now + elapsed <= MaxTime
        /\ Create(args, elapsed)

CreateTamper ==
    \E i \in 1..Len(built), j \in 1..6, value \in TamperValues :
        /\ nops < MaxCreateOps
        /\ j <= Len(built[i].content)
        /\ TamperThenVerify(i, built[i].content[j].k, value)

\* the packet built is handed to the store as its to_json()
CreateReceive ==
    \E p \in Range(built) :
        nops < MaxCreateOps /\ ReceivePacket(ToJson(p, metas))

NextCreate == CreateCall \/ CreateTamper \/ CreateReceive \/ Tick

SpecCreate == InitCreate /\ [][NextCreate]_vars

(* SpecRecon: packets of several sizes and priorities, then reconstruct *)
\* operations per behaviour of SpecRecon
MaxReconOps == 4

ReconInputs ==
    {Text(Doc("identity", 4, ContentA)), Text(Doc("identity", 1, ContentBig)),
     Text(Doc("session", 1, ContentA)), Text(Doc("session", 4, ContentA)),
     Text(Doc("session", 4, ContentBig)), Text(Doc("context", 1, ContentA)),
     Text(Doc("context", 4, ContentBig))}

\* token budgets: token counts
Budgets == {0, 3, 103, 104, 250}

ReconReceive ==
    \E input \in ReconInputs : nops < MaxReconOps /\ ReceivePacket(input)

ReconReconstruct ==
    \E b \in Budgets, inc \in BOOLEAN : nops < MaxReconOps /\ Reconstruct(b, inc)

NextRecon == ReconReceive \/ ReconReconstruct \/ Tick

SpecRecon == Init /\ [][NextRecon]_vars

(* SpecBuf: more packets than the buffers hold *)
\* the n-th packet sent: a HANDOVER packet carrying its own id
BulkInput(n) == Text(Update(Doc("handover", 2, ContentEmpty), [id |-> WireId(n)]))

BulkReceive ==
    /\ Len(received) < MAX_BUFFER_SIZE + BulkExtra
    /\ ReceivePacket(BulkInput(Len(received) + 1))

\* every packet received is emitted once, in the order received
BulkEmit ==
    /\ Len(emitted) < Len(received)
    /\ EmitPacket(received[Len(emitted) + 1], "ok")

\* at most one packet with a malformed header comes in between
BulkReject ==
    /\ nops = Len(received) + Len(emitted)
    /\ ReceivePacket(Text(Doc("invalid", 2, ContentEmpty)))

NextBuf == BulkReceive \/ BulkReject \/ BulkEmit

SpecBuf == Init /\ [][NextBuf]_vars

(* SpecPacket: packets with consent rules; can_share_with and round trips *)
\* operations per behaviour of SpecPacket
MaxPacketOps == 2

\* "Al", "Zi:u1" and "b:C:d"
TargetAl == <<"A", "l">>
TargetZi == <<"Z", "i", ":", "u", "1">>
TargetTwoColons == <<"b", ":", "C", ":", "d">>

TargetLists == {<<>>, <<TargetAl>>, <<TargetAl, TargetZi>>, <<TargetTwoColons>>}

ScopeLists == {<<"read">>, <<"read", "write">>}

ExpiryValues == {None, IsoAware(1), IsoNaive(1), NotIso}

\* wire consents: all four keys, and some left to their defaults
WireConsents ==
    {[public |-> TRUE, targets |-> tg, scopes |-> sc, expires_at |-> e] :
        tg \in {<<>>, <<TargetAl>>}, sc \in ScopeLists, e \in ExpiryValues}
    \cup {[public |-> FALSE, targets |-> tg, scopes |-> sc, expires_at |-> e] :
             tg \in TargetLists \ {<<TargetAl>>}, sc \in ScopeLists,
             e \in ExpiryValues}
    \cup {[targets |-> <<TargetZi>>], [public |-> TRUE], EmptyDict}

PacketInputs ==
    {Text(Update(Doc("context", 3, ContentBA), [consent |-> c])) :
        c \in WireConsents}
    \cup {Dict(Update(Doc("identity", 1, ContentA),
                      [id |-> WireId(7), consent |-> [public |-> TRUE]])),
          Text(Doc("sync", 4, ContentEmpty))}

\* "AL", "zi", "U1", "zi:u1", "c:D", "u" and "gp"
Recipients ==
    {<<"A", "L">>, <<"z", "i">>, <<"U", "1">>, <<"z", "i", ":", "u", "1">>,
     <<"c", ":", "D">>, <<"u">>, <<"g", "p">>}

\* scope arguments: none, or a capability string
Scopes == {NoScope, Scope("read"), Scope("write"), Scope("admin")}

PacketReceive ==
    \E input \in PacketInputs : nops < MaxPacketOps /\ ReceivePacket(input)

PacketCanShare ==
    \E p \in Range(received), r \in Recipients, sc \in Scopes :
        nops < MaxPacketOps /\ CanShare(p, r, sc)

PacketRoundTrip ==
    \E p \in Range(received) : nops < MaxPacketOps /\ RoundTrip(p)

NextPacket == PacketReceive \/ PacketCanShare \/ PacketRoundTrip \/ Tick

SpecPacket == Init /\ [][NextPacket]_vars

(* SpecPersist: emit step by step, with I/O failures and crashes *)
\* calls of receive_packet and emit_packet per behaviour of SpecPersist
MaxPersistOps == 4

\* two packets that carry the same id, and one whose id is generated
PersistInputs ==
    {Text(Update(Doc("session", 3, ContentA), [id |-> WireId(1)])),
     Text(Update(Doc("context", 2, ContentBA), [id |-> WireId(1)])),
     Text(Doc("sync", 4, ContentEmpty))}

PersistReceive ==
    \E input \in PersistInputs :
        /\ emitting = <<>>
        /\ nops < MaxPersistOps
        /\ ReceivePacket(input)

PersistEmit ==
    \E p \in Range(received) : nops < MaxPersistOps /\ EmitBegin(p)

PersistStep ==
    \E succeeds \in BOOLEAN :
        \/ PersistMkdir(succeeds)
        \/ PersistOpen(succeeds)
        \/ PersistWrite(succeeds)
        \/ PersistReplace(succeeds)
        \/ PersistIndex(succeeds)

NextPersist == PersistReceive \/ PersistEmit \/ PersistStep \/ Crash

SpecPersist == Init /\ [][NextPersist]_vars

(* SpecTier: more SESSION and CONTEXT packets than the tiers hold *)
\* receives of a type beyond the capacity of its tier
TierExtra == 2
\* changes of type along the packets received
MaxSwitches == 1
\* packets of each type that has no bounded tier, per behaviour
MaxUntiered == 2

IsType(p, type) == p.type = type

RECURSIVE Count(_, _)
\* the number of packets of a type in a list
Count(buf, type) ==
    IF buf = <<>> THEN 0
    ELSE (IF IsType(buf[1], type) THEN 1 ELSE 0) + Count(Tail(buf), type)

RECURSIVE Switches(_)
\* the number of places where a list of packets changes type
Switches(buf) ==
    IF Len(buf) < 2 THEN 0
    ELSE (IF buf[1].type # buf[2].type THEN 1 ELSE 0) + Switches(Tail(buf))

\* how many packets of a type a behaviour receives
TierQuota(type) ==
    CASE type = "SESSION" -> SESSION_CAPACITY + TierExtra
      [] type = "CONTEXT" -> CONTEXT_CAPACITY + TierExtra
      [] OTHER -> MaxUntiered

\* the n-th packet sent, of the type given
TierInput(n, type) ==
    Text(Update(Doc(PacketTypeValue(type), 3, ContentEmpty), [id |-> WireId(n)]))

TierReceive ==
    \E type \in PacketTypeMembers :
        /\ Count(received, type) < TierQuota(type)
        /\ IF received = <<>> THEN TRUE
           ELSE \/ received[Len(received)].type = type
                \/ Switches(received) < MaxSwitches
        /\ ReceivePacket(TierInput(Len(received) + 1, type))

\* one packet whose consent has expired comes in when SESSION_CAPACITY
\* packets have been received
TierReject ==
    /\ nops = Len(received)
    /\ Len(received) = SESSION_CAPACITY
    /\ now > 0
    /\ ReceivePacket(Text(WithExpiry(Doc("session", 3, ContentEmpty),
                                     IsoAware(0))))

\* the clock moves once, before the first packet
TierTick == received = <<>> /\ nops = 0 /\ now = 0 /\ Tick

NextTier == TierReceive \/ TierReject \/ TierTick

SpecTier == Init /\ [][NextTier]_vars

(* SpecThreads: a store filled to the capacity of its buffers, then calls *)
(* of receive_packet from two threads, with and without the callers' lock *)
\* calls made from the threads per behaviour of SpecThreads
MaxThreadCalls == 3

\* the n-th packet sent: a SESSION packet carrying its own id
ThreadInput(n) == TierInput(n, "SESSION")

InitThreads ==
    /\ now = 0
    /\ metas = <<>>
    /\ incoming_buffer = <<>>
    /\ outgoing_buffer = <<>>
    /\ identity_layer = <<>>
    /\ session_memory = <<>>
    /\ context_layers = <<>>
    /\ files = NoFiles
    /\ index = <<>>
    /\ received = <<>>
    /\ emitted = <<>>
    /\ nops = 0
    /\ last = [op |-> "init"]
    /\ built = <<>>
    /\ asbuilt = <<>>
    /\ emitting = <<>>
    /\ max_packet_size = DEFAULT_MAX_PACKET_SIZE
    /\ compression_threshold = DEFAULT_COMPRESSION_THRESHOLD
    /\ receiving = [t \in Threads |-> Idle]
    /\ serialized \in BOOLEAN

\* one thread fills the store
ThreadsFill ==
    /\ nops < MAX_BUFFER_SIZE
    /\ ReceivePacket(ThreadInput(nops + 1))

ThreadsBegin ==
    \E t \in Threads :
        /\ nops >= MAX_BUFFER_SIZE
        /\ nops < MAX_BUFFER_SIZE + MaxThreadCalls
        /\ ReceiveBegin(t, ThreadInput(nops + 1))

ThreadsStep ==
    \E t \in Threads :
        \/ ReceiveVerify(t)
        \/ ReceiveExpired(t)
        \/ ReceiveAppend(t)
        \/ ReceivePrune(t)
        \/ ReceiveSlice(t)
        \/ ReceiveStore(t)
        \/ ReceiveRoute(t)
        \/ ReceiveTrim(t)

NextThreads == ThreadsFill \/ ThreadsBegin \/ ThreadsStep

SpecThreads == InitThreads /\ [][NextThreads]_vars

(* SpecCodec: from_dict, is_expired and decompress_packet, called by a   *)
(* caller on mappings it made and on packets it holds                      *)
\* operations per behaviour of SpecCodec
MaxCodecOps == 2

\* ConsciousnessPacket.from_dict called on a mapping
FromDictCall(doc) ==
    LET r == FromDict(doc, now, metas)
    IN  /\ metas' = r.heap
        /\ nops' = nops + 1
        /\ last' = [op |-> "from_dict", input |-> doc, clock |-> now,
                    ok |-> r.ok, exc |-> IF r.ok THEN "" ELSE r.exc,
                    ret |-> IF r.ok
                            THEN <<[packet |-> r.packet,
                                    metadata |-> r.heap[r.packet.meta]]>>
                            ELSE <<>>]
        /\ UNCHANGED <<now, incoming_buffer, outgoing_buffer, identity_layer,
                       session_memory, context_layers, files, index, received,
                       emitted, extra>>

\* ConsciousnessPacket.is_expired called on a packet
IsExpiredCall(p) ==
    /\ nops' = nops + 1
    /\ last' = [op |-> "is_expired", packet |-> p, clock |-> now, ok |-> TRUE,
                exc |-> "", ret |-> IsExpired(p, now)]
    /\ UNCHANGED <<now, metas, incoming_buffer, outgoing_buffer, identity_layer,
                   session_memory, context_layers, files, index, received,
                   emitted, extra>>

\* the fetch_original argument of decompress_packet: None, a callable that
\* returns a value, or a callable that raises an Exception
NoLookup == [kind |-> "none"]
Returning(value) == [kind |-> "returns", value |-> value]
Raising == [kind |-> "raises"]

\* a decompress_packet without the try around the lookup
DecompressPacketUncaught(compressed, fetch_original) ==
    IF \/ ContentGet(compressed.content, "compressed") = <<>>
       \/ ~ValueTruthy(ContentGet(compressed.content, "compressed")[1])
    THEN [ok |-> TRUE, exc |-> "", ret |-> <<compressed.content>>]
    ELSE IF fetch_original.kind = "raises"
    THEN [ok |-> FALSE, exc |-> "Exception", ret |-> <<>>]
    ELSE IF fetch_original.kind = "returns"
    THEN [ok |-> TRUE, exc |-> "", ret |-> <<fetch_original.value>>]
    ELSE [ok |-> TRUE, exc |-> "", ret |-> <<compressed.content>>]

\* PacketHandler.decompress_packet: the KeyError of a content without
\* original_id or original_checksum and the Exception of the lookup are
\* both caught
DecompressPacket(compressed, fetch_original) ==
    IF \/ ContentGet(compressed.content, "compressed") = <<>>
       \/ ~ValueTruthy(ContentGet(compressed.content, "compressed")[1])
    THEN [ok |-> TRUE, exc |-> "", ret |-> <<compressed.content>>]
    ELSE IF /\ fetch_original.kind = "returns"
            /\ ContentGet(compressed.content, "original_id") # <<>>
            /\ ContentGet(compressed.content, "original_checksum") # <<>>
    THEN [ok |-> TRUE, exc |-> "", ret |-> <<fetch_original.value>>]
    ELSE [ok |-> TRUE, exc |-> "", ret |-> <<compressed.content>>]

\* a call of decompress_packet on a packet the caller holds
Decompress(p, fetch_original) ==
    LET r == DecompressPacket(p, fetch_original)
    IN  /\ nops' = nops + 1
        /\ last' = [op |-> "decompress", packet |-> p,
                    lookup |-> fetch_original, ok |-> r.ok, exc |-> r.exc,
                    ret |-> r.ret]
        /\ UNCHANGED <<now, metas, incoming_buffer, outgoing_buffer,
                       identity_layer, session_memory, context_layers, files,
                       index, received, emitted, extra>>

\* metadata a sender wrote that is not that of the content sent with it
StaleMetadata ==
    [val |-> [checksum |-> CalculateChecksum(ContentEmpty), token_count |-> 99,
              created |-> 9]]

\* mappings: with an id and each kind of expires_at; with and without an id
\* and each kind of type and priority; with a key missing; with metadata
CodecDocs ==
    {Update(Doc("session", 3, ContentA),
            [id |-> WireId(7), consent |-> [expires_at |-> e]]) :
        e \in {None, EmptyString, NotIso, IsoAware(0), IsoAware(1),
               IsoNaive(0), IsoNaive(1)}}
    \cup {Update(Doc(t, pr, ContentBA), [id |-> WireId(8)]) :
             t \in {"context", "CONTEXT", "invalid"}, pr \in {0, 1, 4, 5}}
    \cup {Doc("handover", 2, ContentEmpty),
          [priority |-> 3, content |-> ContentA, id |-> WireId(9)],
          [type |-> "sync", content |-> ContentA, id |-> WireId(9)],
          [type |-> "sync", priority |-> 4, id |-> WireId(9)],
          Update(Doc("checkpoint", 2, ContentSix),
                 [id |-> WireId(9), metadata |-> StaleMetadata])}

CodecArgs ==
    {[packet_type |-> "SESSION", content |-> c] :
        c \in {ContentA, ContentSix, ContentBig}}

Lookups == {NoLookup, Returning(ContentBA), Returning(ContentEmpty), Raising}

CodecCreate ==
    \E args \in CodecArgs : nops < MaxCodecOps /\ Create(args, 0)

CodecFromDict ==
    \E doc \in CodecDocs : nops < MaxCodecOps /\ FromDictCall(doc)

\* is_expired on the packet from_dict has just returned
CodecIsExpired ==
    /\ nops < MaxCodecOps
    /\ last.op = "from_dict"
    /\ last.ok
    /\ IsExpiredCall(last.ret[1].packet)

CodecDecompress ==
    \E p \in Range(built), fetch_original \in Lookups :
        nops < MaxCodecOps /\ Decompress(p, fetch_original)

NextCodec ==
    CodecCreate \/ CodecFromDict \/ CodecIsExpired \/ CodecDecompress \/ Tick

SpecCodec == InitCreate /\ [][NextCodec]_vars

(* SpecFrame: every operation of the handler on a store that holds and   *)
(* has emitted packets                                                     *)
\* operations per behaviour of SpecFrame
MaxFrameOps == 3

FrameInputs ==
    {Text(Doc("session", 3, ContentA)), Text(Doc("identity", 1, ContentA)),
     Text(Doc("invalid", 3, ContentA))}
    \cup UNION {{Dict(ToDict(p)),
                 Dict([ToDict(p) EXCEPT !.content = ContentBA])} :
                    p \in Range(received)}

FrameReceive ==
    \E input \in FrameInputs : nops < MaxFrameOps /\ ReceivePacket(input)

FrameEmit ==
    \E p \in Range(received), io \in {"ok", "write_fails"} :
        nops < MaxFrameOps /\ EmitPacket(p, io)

FrameCreate ==
    /\ nops < MaxFrameOps
    /\ Create([packet_type |-> "CONTEXT", content |-> ContentSix], 0)

FrameCanShare ==
    \E p \in Range(received) :
        nops < MaxFrameOps /\ CanShare(p, <<"A", "L">>, NoScope)

FrameFilter ==
    /\ nops < MaxFrameOps
    /\ received # <<>>
    /\ Filter(received, <<"A", "L">>, Scope("read"))

FrameReconstruct ==
    \E inc \in BOOLEAN : nops < MaxFrameOps /\ Reconstruct(250, inc)

FrameDecompress ==
    \E p \in Range(received) \cup Range(built) :
        nops < MaxFrameOps /\ Decompress(p, Raising)

NextFrame ==
    \/ FrameReceive
    \/ FrameEmit
    \/ FrameCreate
    \/ FrameCanShare
    \/ FrameFilter
    \/ FrameReconstruct
    \/ FrameDecompress
    \/ Tick

SpecFrame == Init /\ [][NextFrame]_vars

(* SpecExpiry: packets, some with a consent window that passes while they *)
(* are stored, then reconstruct and can_share                             *)
\* operations per behaviour of SpecExpiry
MaxExpiryOps == 3

ExpiringInputs ==
    {Text(WithExpiry(Doc("session", 1, ContentA), IsoAware(0))),
     Text(WithExpiry(Doc("session", 3, ContentBA), IsoAware(1))),
     Text(WithExpiry(Doc("context", 2, ContentSix), IsoAware(0))),
     Text(WithExpiry(Doc("identity", 1, ContentA), IsoAware(1))),
     Text(Doc("identity", 1, ContentBig)),
     Text(Doc("context", 4, ContentA)),
     Text(Doc("session", 2, ContentBig))}

ExpiryReceive ==
    \E input \in ExpiringInputs : nops < MaxExpiryOps /\ ReceivePacket(input)

ExpiryReconstruct ==
    \E b \in {3, 104, 250}, inc \in BOOLEAN :
        nops < MaxExpiryOps /\ Reconstruct(b, inc)

ExpiryCanShare ==
    \E p \in Range(received) :
        nops < MaxExpiryOps /\ CanShare(p, <<"A", "L">>, NoScope)

NextExpiry == ExpiryReceive \/ ExpiryReconstruct \/ ExpiryCanShare \/ Tick

SpecExpiry == Init /\ [][NextExpiry]_vars

(* ============================================================= claims *)
\* a step that is a call of receive_packet
ReceiveStep == nops' = nops + 1 /\ last'.op = "receive"

\* the tiers and the incoming buffer are as before the step
NotBufferedNorRouted ==
    /\ incoming_buffer' = incoming_buffer
    /\ identity_layer' = identity_layer
    /\ session_memory' = session_memory
    /\ context_layers' = context_layers

\* the input is a mapping, or the text of one, with a well-formed header
WellFormed(input) ==
    /\ input.kind \in {"text", "dict"}
    /\ {"type", "priority", "content"} \subseteq DOMAIN input.doc
    /\ PacketType(input.doc.type).ok
    /\ PacketPriority(input.doc.priority).ok

\* the metadata the input carries, as a value
WireMetadata(input, heap) ==
    IF "metadata" \notin DOMAIN input.doc THEN EmptyDict
    ELSE IF "ref" \in DOMAIN input.doc.metadata THEN heap[input.doc.metadata.ref]
    ELSE input.doc.metadata.val

\* the input's metadata.checksum is not the digest of the input's content
ChecksumMismatch(input, heap) ==
    /\ WellFormed(input)
    /\ "checksum" \in DOMAIN WireMetadata(input, heap)
    /\ WireMetadata(input, heap).checksum # CalculateChecksum(input.doc.content)

\* C1: every input to receive whose metadata.checksum differs from the digest
\* of its content fails with IntegrityError and is neither buffered nor routed.
C1_MismatchRejected ==
    [][(ReceiveStep /\ ChecksumMismatch(last'.input, metas))
         => (last'.exc = "IntegrityError" /\ NotBufferedNorRouted)]_vars

\* the buffers and tiers with every packet's metadata read off the heap
Deref(p, heap) == [p EXCEPT !.meta = heap[p.meta]]

DerefAll(buf, heap) == [i \in 1..Len(buf) |-> Deref(buf[i], heap)]

StoreContents ==
    [incoming_buffer |-> DerefAll(incoming_buffer, metas),
     outgoing_buffer |-> DerefAll(outgoing_buffer, metas),
     identity_layer |-> DerefAll(identity_layer, metas),
     session_memory |-> DerefAll(session_memory, metas),
     context_layers |-> DerefAll(context_layers, metas)]

\* C2: whenever receive fails, the two buffers and the three tiers are exactly
\* as they were before the call.
C2_FailedReceiveLeavesStore ==
    [][(ReceiveStep /\ ~last'.ok) => StoreContents' = StoreContents]_vars

\* the input's consent.expires_at is a timestamp earlier than the clock
PastExpiry(input, clock) ==
    /\ WellFormed(input)
    /\ InitConsent(input.doc).expires_at.kind = "iso"
    /\ InitConsent(input.doc).expires_at.t < clock

\* C3: receive of a packet whose consent.expires_at is a timestamp earlier than
\* the current time fails with ConsentError and the packet is neither buffered
\* nor routed.
C3_PastExpiryRejected ==
    [][(ReceiveStep /\ PastExpiry(last'.input, now))
         => (last'.exc = "ConsentError" /\ NotBufferedNorRouted)]_vars

\* C4: each buffer holds at most MAX_BUFFER_SIZE packets, and is exactly the
\* last min(n, MAX_BUFFER_SIZE) of the n packets received (emitted), in order.
C4_BuffersHoldMostRecent ==
    /\ Len(incoming_buffer) = Min(Len(received), MAX_BUFFER_SIZE)
    /\ Len(outgoing_buffer) = Min(Len(emitted), MAX_BUFFER_SIZE)
    /\ \A i \in 1..Len(incoming_buffer) :
           incoming_buffer[i] = received[Len(received) - Len(incoming_buffer) + i]
    /\ \A i \in 1..Len(outgoing_buffer) :
           outgoing_buffer[i] = emitted[Len(emitted) - Len(outgoing_buffer) + i]

\* both buffers have overflowed, with a rejected packet in between
C4_Witness ==
    /\ Len(received) > MAX_BUFFER_SIZE
    /\ Len(emitted) > MAX_BUFFER_SIZE
    /\ nops > Len(received) + Len(emitted)

\* C5: for any token_budget B the tokens of the layers reconstruct returns sum
\* to at most B; the sum is the reported total_tokens and remaining_tokens is
\* B - total_tokens.
C5_WithinBudget ==
    last.op = "reconstruct" =>
        /\ SumTokens(last.ret.layers) <= last.budget
        /\ last.ret.total_tokens = SumTokens(last.ret.layers)
        /\ last.ret.remaining_tokens = last.budget - last.ret.total_tokens

\* an identity and a pool packet were returned and a packet of the pool was
\* left out
C5_Witness ==
    /\ last.op = "reconstruct"
    /\ Len(last.ret.layers) >= 2
    /\ last.ret.layers[1].type = "identity"
    /\ Len(last.ret.layers) < 1 + Len(session_memory) + Len(context_layers)

\* packets i < j of a returned list are in (priority, created) order
InOrder(ps, i, j) ==
    \/ PacketPriorityValue(ps[i].priority) < PacketPriorityValue(ps[j].priority)
    \/ /\ PacketPriorityValue(ps[i].priority) = PacketPriorityValue(ps[j].priority)
       /\ metas[ps[i].meta].created <= metas[ps[j].meta].created

\* C6 as stated: all the packets reconstruct returns are in non-decreasing
\* priority order, ties in ascending creation time.
C6_AllInPriorityOrder ==
    last.op = "reconstruct" =>
        \A i, j \in 1..Len(last.ret.packets) :
            i < j => InOrder(last.ret.packets, i, j)

\* C6 amended: the session and context packets reconstruct returns are in
\* non-decreasing priority order, ties in ascending creation time; the identity
\* packet, when returned, is the first layer whatever its priority.
C6_PoolInPriorityOrder ==
    last.op = "reconstruct" =>
        \A i, j \in 1..Len(last.ret.packets) :
            /\ (last.ret.layers[j].type = "identity") => j = 1
            /\ (i < j /\ last.ret.layers[i].type # "identity")
                   => InOrder(last.ret.packets, i, j)

\* a LOW identity packet ahead of a CRITICAL one, and two packets of the pool
\* with the same priority and different creation times
C6_Witness ==
    /\ last.op = "reconstruct"
    /\ Len(last.ret.packets) >= 3
    /\ last.ret.layers[1].type = "identity"
    /\ last.ret.packets[1].priority = "LOW"
    /\ last.ret.packets[2].priority = "CRITICAL"
    /\ last.ret.packets[3].priority = "CRITICAL"
    /\ metas[last.ret.packets[2].meta].created
           < metas[last.ret.packets[3].meta].created

\* the packet's expires_at is a timestamp that the clock has passed
ConsentExpired(p, clock) ==
    p.consent.expires_at.kind = "iso" /\ p.consent.expires_at.t < clock

\* C7: can_share returns false for every recipient and every scope when the
\* packet's consent is expired, whatever public and targets are.
C7_ExpiredNeverShared ==
    (last.op = "can_share" /\ ConsentExpired(last.packet, last.clock))
        => ~last.ret

\* the recipient equals, ignoring case, a bare-name target or the name half or
\* the id half (the text before and after the first colon) of a name:id target
RecipientListed(recipient, targets) ==
    \E n \in 1..Len(targets) :
        LET target == targets[n]
            colons == {i \in 1..Len(target) : target[i] = ":"}
        IN  IF colons = {}
            THEN Lower(recipient) = Lower(target)
            ELSE LET c == CHOOSE i \in colons : \A j \in colons : i <= j
                 IN  \/ Lower(recipient) = Lower(SubSeq(target, 1, c - 1))
                     \/ Lower(recipient) = Lower(SubSeq(target, c + 1, Len(target)))

\* C8: for a non-expired public packet can_share returns true when no scope is
\* given and otherwise exactly when the scope is in the consent scopes,
\* whatever the recipient and the targets.
C8_PublicScope ==
    (/\ last.op = "can_share"
     /\ ~ConsentExpired(last.packet, now)
     /\ last.packet.consent.public)
        => last.ret = (\/ last.scope = NoScope
                       \/ /\ last.scope # NoScope
                          /\ last.scope.s \in Range(last.packet.consent.scopes))

\* a public packet refused for its scope to a recipient its targets list
C8_Witness ==
    /\ last.op = "can_share"
    /\ ~ConsentExpired(last.packet, now)
    /\ last.packet.consent.public
    /\ last.packet.consent.expires_at = IsoAware(1)
    /\ last.scope = Scope("write")
    /\ RecipientListed(last.recipient, last.packet.consent.targets)
    /\ ~last.ret

\* C9: for a non-expired non-public packet can_share returns true only if the
\* recipient is listed and, when a scope is given, the scope is in the consent
\* scopes; when no target matches it returns false.
C9_PrivateScope ==
    (/\ last.op = "can_share"
     /\ ~ConsentExpired(last.packet, now)
     /\ ~last.packet.consent.public)
        => /\ last.ret =>
                 /\ RecipientListed(last.recipient, last.packet.consent.targets)
                 /\ last.scope # NoScope
                        => last.scope.s \in Range(last.packet.consent.scopes)
           /\ ~RecipientListed(last.recipient, last.packet.consent.targets)
                  => ~last.ret

\* a private packet shared with a recipient that is the id half of a target in
\* another case, for a scope the consent names
C9_Witness ==
    /\ last.op = "can_share"
    /\ ~ConsentExpired(last.packet, now)
    /\ ~last.packet.consent.public
    /\ last.packet.consent.targets = <<TargetAl, TargetZi>>
    /\ last.recipient = <<"U", "1">>
    /\ last.scope = Scope("write")
    /\ last.ret

\* C10: deserialize(serialize(P)) has the id, type, priority, consent and
\* content of P, and verify_integrity holds on it.
C10_RoundTrip ==
    last.op = "roundtrip" =>
        /\ last.ok
        /\ last.ret[1].packet.id = last.packet.id
        /\ last.ret[1].packet.type = last.packet.type
        /\ last.ret[1].packet.priority = last.packet.priority
        /\ last.ret[1].packet.consent = last.packet.consent
        /\ last.ret[1].packet.content = last.packet.content
        /\ "checksum" \in DOMAIN last.ret[1].metadata
        /\ last.ret[1].metadata.checksum
               = CalculateChecksum(last.ret[1].packet.content)

\* a packet with a generated id and an unsorted content, round-tripped at a
\* later time than it was built
C10_Witness ==
    /\ last.op = "roundtrip"
    /\ last.packet.id.src = "cp"
    /\ last.packet.id.n < now
    /\ last.packet.content = ContentBA
    /\ last.packet.consent.targets = <<TargetZi>>

\* a step that is a call of content[key] = value; verify_integrity()
TamperStep == nops' = nops + 1 /\ last'.op = "tamper"

\* C11: if the value of any key of a packet's content is changed after the
\* packet was constructed, verify_integrity on that packet returns false.
C11_TamperDetected ==
    [][(TamperStep /\ last'.packet.content # last'.constructed)
         => last'.ret = FALSE]_vars

\* the summary of a compressed packet was changed, and verify_integrity on
\* the packet was false
C11_Witness ==
    /\ last.op = "tamper"
    /\ last.ret = FALSE
    /\ last.packet.content # last.constructed
    /\ last.key = "summary"
    /\ ContentGet(last.packet.content, "compressed") = <<Bool(TRUE)>>

\* a step that is a call of create_packet
CreateStep == nops' = nops + 1 /\ last'.op = "create"

\* C12: create fails, with PacketError, exactly when the estimated token count
\* of the content given is strictly greater than max_packet_size: a content of
\* exactly max_packet_size tokens is accepted, and it is the content given
\* that is measured, not its compressed replacement.
C12_SizeAdmission ==
    [][CreateStep =>
         /\ ~last'.ok <=> EstimateTokens(last'.input.content) > max_packet_size
         /\ ~last'.ok <=> last'.exc = "PacketError"]_vars

\* a content of exactly max_packet_size tokens was accepted and compressed,
\* its replacement being larger than max_packet_size
C12_Witness ==
    /\ last.op = "create"
    /\ last.ok
    /\ EstimateTokens(last.input.content) = max_packet_size
    /\ max_packet_size > compression_threshold
    /\ metas[last.ret[1].meta].token_count > max_packet_size

\* p is the compressed replacement of a packet with the content given
CompressedFrom(p, content, heap) ==
    /\ ContentGet(p.content, "compressed") = <<Bool(TRUE)>>
    /\ ContentGet(p.content, "original_checksum")
           = <<DigestValue(CalculateChecksum(content))>>
    /\ ContentGet(p.content, "original_size") = <<Num(EstimateTokens(content))>>
    /\ "original_checksum" \in DOMAIN heap[p.meta]
    /\ heap[p.meta].original_checksum = CalculateChecksum(content)

\* C13: create returns a compressed packet (content.compressed true,
\* content.original_checksum and metadata.original_checksum the checksum of
\* the content given, content.original_size its token count) exactly when the
\* token count is above compression_threshold and not above max_packet_size;
\* at or below the threshold the content is returned unchanged.
C13_CompressionTrigger ==
    [][CreateStep =>
         LET content == last'.input.content
             tokens == EstimateTokens(content)
         IN  /\ (last'.ok /\ CompressedFrom(last'.ret[1], content, metas'))
                  <=> (tokens > compression_threshold /\ tokens <= max_packet_size)
             /\ (last'.ok /\ tokens <= compression_threshold)
                  => last'.ret[1].content = content]_vars

\* a content whose text is longer than the summary keeps was compressed, and
\* with another handler a content of exactly the threshold was left as it was
C13_Witness ==
    /\ last.op = "create"
    /\ last.ok
    /\ \/ /\ PlainLen(last.input.content) > 200
          /\ CompressedFrom(last.ret[1], last.input.content, metas)
       \/ /\ EstimateTokens(last.input.content) = compression_threshold
          /\ last.ret[1].content = last.input.content
          /\ EstimateTokens(last.input.content) > 0
    /\ \E i \in 1..Len(built) :
           /\ ContentGet(built[i].content, "compressed") = <<Bool(TRUE)>>
           /\ built[i] # last.ret[1]

\* a step in which a call of emit_packet ends, by returning or by raising
EmitEnd == emitting # <<>> /\ emitting' = <<>> /\ last'.op = "emit"

\* C14: when persistence fails during emit the call raises PacketError
\* ("Failed to persist packet") and the packet is still the one appended to
\* outgoing_buffer; when persistence succeeds emit returns the serialized
\* packet and the packet is the last element of outgoing_buffer.
C14_EmitOutcome ==
    [][EmitEnd =>
         /\ outgoing_buffer' # <<>>
         /\ outgoing_buffer'[Len(outgoing_buffer')] = last'.input
         /\ IF last'.ok THEN last'.ret = <<ToJson(last'.input, metas)>>
            ELSE last'.exc = "PacketError"]_vars

\* C15: at every point of _persist_packet, and after a failure or a crash at
\* any step, the file {id}.json either does not exist or holds the complete
\* serialization of a packet.
C15_FinalFileComplete ==
    \A path \in DOMAIN files :
        path.name = "final" =>
            files[path].complete /\ files[path].text.kind = "text"

\* the process died while the temp file of an id that already has a data file
\* was being written: the data file holds the older packet, whole
C15_Witness ==
    \E path \in DOMAIN files :
        /\ path.name = "final"
        /\ TmpPath(path.id) \in DOMAIN files
        /\ ~files[TmpPath(path.id)].complete
        /\ files[TmpPath(path.id)].text # files[path].text
        /\ last.op = "crash"

\* C16: every failure of the durable write in _persist_packet (making the date
\* directory, writing the temp file, renaming it) reaches the caller as
\* PacketError, and after the failed call no temp file of the packet remains.
C16_WriteFailureSurfaced ==
    [][(EmitEnd /\ ~last'.ok) =>
         /\ last'.exc = "PacketError"
         /\ TmpPath(last'.input.id) \notin DOMAIN files']_vars

\* a step in which the append to index.jsonl fails, the rename having succeeded
IndexFailure ==
    /\ emitting # <<>>
    /\ emitting[1].pc = "index"
    /\ emitting' = <<>>
    /\ last'.op = "emit"
    /\ index' \in {index} \cup {AppendTorn(index, emitting[1].packet.id, whole) :
                                  whole \in BOOLEAN}

\* C17: a failure to append to index.jsonl after a successful rename does not
\* fail emit: the call returns the serialized packet, the data file stays in
\* place and no error reaches the caller.
C17_IndexFailureAbsorbed ==
    [][IndexFailure =>
         /\ last'.ok
         /\ last'.exc = ""
         /\ last'.ret = <<ToJson(last'.input, metas)>>
         /\ files' = files
         /\ FinalPath(last'.input.id) \in DOMAIN files'
         /\ files'[FinalPath(last'.input.id)]
                = Complete(ToJson(last'.input, metas))]_vars

\* emit has returned the packet, whose data file has no line in the index
C17_Witness ==
    /\ last.op = "emit"
    /\ last.ok
    /\ FinalPath(last.input.id) \in DOMAIN files
    /\ last.input.id \notin Range(index)

\* the id of the packet that p replaced, <<>> when p is no replacement
OriginalId(p) ==
    LET v == ContentGet(p.content, "original_id")
    IN  IF v # <<>> /\ v[1].t = "id" THEN <<v[1].id>> ELSE <<>>

\* C18: any two packets built by create, a compressed replacement and the
\* packet it replaces included, have different ids, whatever the clock the
\* ids are derived from reads.
C18_DistinctIds ==
    /\ \A i, j \in 1..Len(built) : i # j => built[i].id # built[j].id
    /\ \A i \in 1..Len(built) : OriginalId(built[i]) # <<built[i].id>>

\* the packets of a type among those received, in receipt order
OfType(buf, type) == SelectSeq(buf, LAMBDA p : IsType(p, type))

\* C19: session_memory holds at most 10 and context_layers at most 20 packets;
\* session_memory is exactly the last min(k, 10) of the k SESSION packets
\* received, in receipt order, and context_layers the last min(k, 20) of the
\* CONTEXT packets.
C19_TiersHoldMostRecent ==
    /\ Len(session_memory) <= 10
    /\ Len(context_layers) <= 20
    /\ session_memory = LastN(OfType(received, "SESSION"), 10)
    /\ context_layers = LastN(OfType(received, "CONTEXT"), 20)

\* both tiers have evicted packets, and a packet was rejected on the way
C19_Witness ==
    /\ Count(received, "SESSION") > 10
    /\ Count(received, "CONTEXT") > 20
    /\ nops > Len(received)

\* the tiers hold packets of their own type only
TierTypes ==
    /\ \A i \in 1..Len(identity_layer) : identity_layer[i].type = "IDENTITY"
    /\ \A i \in 1..Len(session_memory) : session_memory[i].type = "SESSION"
    /\ \A i \in 1..Len(context_layers) : context_layers[i].type = "CONTEXT"

\* the tiers after the packet was routed by its type
RoutedByType(p) ==
    /\ incoming_buffer' = LastN(Append(incoming_buffer, p), MAX_BUFFER_SIZE)
    /\ identity_layer' = IF p.type = "IDENTITY" THEN <<p>> ELSE identity_layer
    /\ session_memory' = IF p.type = "SESSION"
                         THEN LastN(Append(session_memory, p), 10)
                         ELSE session_memory
    /\ context_layers' = IF p.type = "CONTEXT"
                         THEN LastN(Append(context_layers, p), 20)
                         ELSE context_layers

\* C20: a successful receive routes by type: an IDENTITY packet replaces
\* identity_layer and changes no other tier, a SESSION packet is appended only
\* to session_memory, a CONTEXT packet only to context_layers, a HANDOVER,
\* SYNC or CHECKPOINT packet is appended to incoming_buffer and changes no
\* tier; every packet held in a tier has the type of that tier.
C20_RoutedByType ==
    /\ []TierTypes
    /\ [][(ReceiveStep /\ last'.ok) => RoutedByType(last'.ret[1])]_vars

\* a second IDENTITY packet has replaced the first, a SESSION packet being held
C20_Witness ==
    /\ last.op = "receive"
    /\ last.ok
    /\ last.ret[1].type = "IDENTITY"
    /\ Count(received, "IDENTITY") = 2
    /\ identity_layer = <<received[Len(received)]>>
    /\ received[Len(received)] # received[1]
    /\ Len(session_memory) = 1

\* the layers of the session/context pool among those returned
PoolPackets(ret) ==
    IF ret.layers # <<>> /\ ret.layers[1].type = "identity"
    THEN Tail(ret.packets) ELSE ret.packets

\* the budget left for the pool once the identity layer was deducted
PoolBudget(budget, ret) ==
    IF ret.layers # <<>> /\ ret.layers[1].type = "identity"
    THEN budget - ret.layers[1].tokens ELSE budget

RECURSIVE MarginWalk(_, _, _)
\* the greedy walk as the claim has it: the walk is over as soon as the
\* budget left is below 100, a packet that does not fit is passed over
MarginWalk(sorted, budget, heap) ==
    IF sorted = <<>> \/ budget < 100 THEN <<>>
    ELSE LET tokens == heap[sorted[1].meta].token_count
         IN  IF tokens <= budget
             THEN <<sorted[1]>> \o MarginWalk(Tail(sorted), budget - tokens, heap)
             ELSE MarginWalk(Tail(sorted), budget, heap)

\* C21: in the greedy walk of reconstruct a pool packet that does not fit the
\* budget left is skipped and the walk goes on, and once the budget left is
\* below 100 the walk stops: no pool packet is included when the budget left
\* before considering it is below 100, the start of the walk included.
C21_ReserveMargin ==
    last.op = "reconstruct" =>
        PoolPackets(last.ret)
            = MarginWalk(SortedPool(session_memory \o context_layers, metas),
                         PoolBudget(last.budget, last.ret), metas)

\* C22: reconstruct places the identity packet as the first layer exactly when
\* include_identity is true, an identity packet is stored and its token count
\* is at most the budget; otherwise it is omitted, no error is raised and the
\* whole budget is left to the session/context pool.
C22_IdentityFirst ==
    last.op = "reconstruct" =>
        LET fits == /\ last.include_identity
                    /\ identity_layer # <<>>
                    /\ metas[identity_layer[1].meta].token_count <= last.budget
            layers == last.ret.layers
        IN  /\ last.ok
            /\ \A i \in 1..Len(layers) : layers[i].type = "identity" => i = 1
            /\ (layers # <<>> /\ layers[1].type = "identity") <=> fits
            /\ fits => /\ last.ret.packets[1] = identity_layer[1]
                       /\ layers[1].content = identity_layer[1].content
                       /\ layers[1].tokens
                              = metas[identity_layer[1].meta].token_count
            /\ ~fits => last.ret.packets
                           = SelectPacketsByPriority(
                                 session_memory \o context_layers, last.budget,
                                 metas)

\* an identity packet that does not fit was left out and a pool packet that
\* fits the whole budget, but not what the identity would have left, returned
C22_Witness ==
    /\ last.op = "reconstruct"
    /\ last.include_identity
    /\ identity_layer # <<>>
    /\ metas[identity_layer[1].meta].token_count > last.budget
    /\ last.ret.layers # <<>>
    /\ last.ret.layers[1].type # "identity"

\* the type and priority tags a mapping may carry
RecognizedTypes ==
    {"identity", "session", "context", "handover", "sync", "checkpoint"}

RecognizedPriorities == 1..4

\* the mapping has no type or priority, or one that is no recognized tag
MalformedHeader(doc) ==
    \/ "type" \notin DOMAIN doc
    \/ "priority" \notin DOMAIN doc
    \/ doc.type \notin RecognizedTypes
    \/ doc.priority \notin RecognizedPriorities

\* C23: deserialize of a mapping whose type or priority is missing or not a
\* recognized tag fails with the malformed-header error; for every other
\* mapping the packet returned carries the id given in the input rather than
\* a freshly generated one (the one other outcome is the KeyError of a
\* mapping without content, from which no packet is returned).
C23_HeaderAndId ==
    last.op = "from_dict" =>
        LET doc == last.input
        IN  /\ MalformedHeader(doc) => ~last.ok /\ last.exc = "PacketError"
            /\ ~MalformedHeader(doc) =>
                   /\ last.ok <=> "content" \in DOMAIN doc
                   /\ ~last.ok => last.exc = "KeyError"
                   /\ (last.ok /\ "id" \in DOMAIN doc)
                        => /\ last.ret[1].packet.id = doc.id
                           /\ last.ret[1].packet.id # GenerateId(last.clock)

\* a mapping with a recognized header and an id was deserialized
C23_Witness ==
    /\ last.op = "from_dict"
    /\ last.ok
    /\ "id" \in DOMAIN last.input
    /\ last.ret[1].packet.id = WireId(9)
    /\ "metadata" \in DOMAIN last.input

\* C24: is_expired returns false when expires_at is absent, false when it
\* does not parse as a timestamp, and for every expires_at that parses, with
\* or without a UTC offset, true exactly when the current time is past it.
C24_ExpiredExactly ==
    last.op = "is_expired" =>
        LET e == last.packet.consent.expires_at
        IN  last.ret = (e.kind = "iso" /\ e.t < last.clock)

\* the content is that of a compressed packet
IsCompressed(content) == ContentGet(content, "compressed") = <<Bool(TRUE)>>

\* C25: decompress never propagates an error of the caller-supplied lookup:
\* it returns the packet's content unchanged when the packet is not
\* compressed, the lookup's result when a lookup is supplied and succeeds,
\* and the compressed placeholder content when no lookup is supplied or the
\* lookup fails.
C25_DecompressOutcome ==
    last.op = "decompress" =>
        /\ last.ok
        /\ last.exc = ""
        /\ last.ret =
               IF ~IsCompressed(last.packet.content)
               THEN <<last.packet.content>>
               ELSE IF last.lookup.kind = "returns"
               THEN <<last.lookup.value>>
               ELSE <<last.packet.content>>

\* the lookup failed on a compressed packet and the placeholder came back
C25_Witness ==
    /\ last.op = "decompress"
    /\ IsCompressed(last.packet.content)
    /\ last.lookup = Raising
    /\ last.ok
    /\ last.ret = <<last.packet.content>>

\* the packet id that a line of index.jsonl which reads as an entry names
EntryId(line) ==
    IF "pieces" \in DOMAIN line THEN line.pieces[1].id ELSE line

\* C26: in every state reachable by emit calls, failures and crashes at any
\* step of persist, each line of index.jsonl names a data file that exists and
\* is complete: the line is appended only after the rename, the lines already
\* there are never changed or removed, and the only inconsistency is a data
\* file that has no index line.
C26_IndexNamesDataFiles ==
    /\ [](\A i \in 1..Len(index) :
             /\ IsEntry(index[i])
             /\ FinalPath(EntryId(index[i])) \in DOMAIN files
             /\ files[FinalPath(EntryId(index[i]))].complete)
    /\ [][\/ index' = index
          \/ /\ emitting # <<>>
             /\ Len(index') = Len(index) + 1
             /\ SubSeq(index', 1, Len(index)) = index
             /\ IsEntry(index'[Len(index')])
             /\ EntryId(index'[Len(index')]) = emitting[1].packet.id
             /\ FinalPath(emitting[1].packet.id) \in DOMAIN files
             /\ files[FinalPath(emitting[1].packet.id)].complete
             /\ files' = files]_vars

\* the packets the store holds in incoming_buffer and the three tiers
HeldPackets ==
    Range(incoming_buffer) \cup Range(identity_layer)
        \cup Range(session_memory) \cup Range(context_layers)

\* C28: every packet produced by deserialize, and so every packet held in
\* incoming_buffer or a tier, satisfies verify_integrity and has a token_count
\* equal to the estimate of its own content.
C28_HeldPacketsVerify ==
    \A p \in HeldPackets :
        /\ VerifyIntegrity(p, metas)
        /\ metas[p.meta].token_count = EstimateTokens(p.content)

\* a step that is a whole call of the operation named
CallOf(op) == nops' = nops + 1 /\ last'.op = op

\* C29: create, can_share, filter_for, reconstruct and decompress leave
\* incoming_buffer, outgoing_buffer and the three tiers unchanged; a
\* successful receive leaves outgoing_buffer unchanged; emit leaves
\* incoming_buffer and the three tiers unchanged.
C29_FrameEffects ==
    [][/\ (\E op \in {"create", "can_share", "filter", "reconstruct",
                       "decompress"} : CallOf(op))
            => StoreContents' = StoreContents
       /\ (CallOf("receive") /\ last'.ok)
            => StoreContents'.outgoing_buffer = StoreContents.outgoing_buffer
       /\ CallOf("emit")
            => /\ StoreContents'.incoming_buffer = StoreContents.incoming_buffer
               /\ StoreContents'.identity_layer = StoreContents.identity_layer
               /\ StoreContents'.session_memory = StoreContents.session_memory
               /\ StoreContents'.context_layers = StoreContents.context_layers
      ]_vars

\* the consent window of the packet has passed at the time given
WindowPassed(p, clock) ==
    /\ p.consent.expires_at.kind = "iso"
    /\ p.consent.expires_at.t < clock

\* C30: expiry is checked only at receipt and in can_share: a packet that was
\* accepted by receive and whose expires_at passes afterwards stays in its
\* buffer and tier, and reconstruct still returns its content whenever
\* priority order and budget select it.
C30_ExpiredStaysStored ==
    /\ [][~CallOf("receive") =>
             /\ incoming_buffer' = incoming_buffer
             /\ identity_layer' = identity_layer
             /\ session_memory' = session_memory
             /\ context_layers' = context_layers]_vars
    /\ [](last.op = "reconstruct" =>
             /\ PoolPackets(last.ret)
                    = SelectPacketsByPriority(
                          session_memory \o context_layers,
                          PoolBudget(last.budget, last.ret), metas)
             /\ (/\ last.include_identity
                 /\ identity_layer # <<>>
                 /\ metas[identity_layer[1].meta].token_count <= last.budget)
                  => last.ret.packets[1] = identity_layer[1])

\* a packet whose consent window passed while it was stored is in its tier
\* and in what reconstruct returned
C30_Witness ==
    /\ last.op = "reconstruct"
    /\ \E i \in 1..Len(last.ret.packets) :
           /\ WindowPassed(last.ret.packets[i], last.ret.timestamp.t)
           /\ last.ret.packets[i] \in Range(session_memory)
           /\ last.ret.layers[i].content = last.ret.packets[i].content

\* a packet receive has returned is missing from the buffer while a packet
\* returned before it is still there
MissingWhileOlderKept(buf) ==
    \E j \in 1..Len(received) :
        /\ received[j] \notin Range(buf)
        /\ \E i \in 1..(j - 1) : received[i] \in Range(buf)

\* no thread is inside a call
AllIdle == \A t \in Threads : receiving[t] = Idle

\* C27: the append, prune-by-reassignment and route steps of receive are not
\* atomic: when two receive calls on one store interleave step by step
\* without a caller-side lock, a state is reachable in which a packet that
\* was received is missing from incoming_buffer or from its tier while an
\* older packet is retained; when each call runs under one per-instance lock
\* no such state is reachable, and between calls the buffer and the tier hold
\* the most recent packets.
C27_SerializedLosesNothing ==
    serialized =>
        /\ ~MissingWhileOlderKept(incoming_buffer)
        /\ ~MissingWhileOlderKept(session_memory)
        /\ AllIdle =>
               /\ incoming_buffer = LastN(received, MAX_BUFFER_SIZE)
               /\ session_memory = LastN(received, SESSION_CAPACITY)

\* without the lock two calls have returned, and the packet of one of them
\* is in neither incoming_buffer nor its tier, which hold older packets
C27_Witness ==
    /\ ~serialized
    /\ AllIdle
    /\ Len(received) = MAX_BUFFER_SIZE + MaxThreadCalls
    /\ MissingWhileOlderKept(incoming_buffer)
    /\ MissingWhileOlderKept(session_memory)
====
